---- MODULE Spec2Model ----
(***************************************************************************)
(* Structural-feature placement engine of the ILE scene generator          *)
(* (ideal_learning_env/structural_object_service.py).                      *)
(*                                                                         *)
(* Lengths are integers: one world unit is Unit model units, so that the   *)
(* 4-decimal rounding of round(x, 4) has a quantum of RoundQuantum = 4     *)
(* model units and off-grid heights exist.  Positions are stored DOUBLED   *)
(* (pos2 = 2 * position) so that "scale * 0.5" never leaves the integers.  *)
(* Rotations are restricted to multiples of 90 degrees, where cos and sin  *)
(* are exact.  max_angle is 45 (the only value the callers pass), so       *)
(* atan(h / l) <= 45 degrees is h <= l and h / tan(45) is h.               *)
(***************************************************************************)
EXTENDS Integers, Sequences, FiniteSets, TLC

VARIABLES
    pc,                 \* position of the platform request in _post_instance
    template,           \* reconciled StructuralPlatformConfig
    obj,                \* the platform instance (new_obj), mutated in place
    tries,              \* failed attempts of the loop "for _ in range(MAX_TRIES)"
    new_platform,       \* platform underneath of the current attempt, or NoObj
    below_pre_rot_pos,  \* its pre-rotation position (doubled), or NoPos
    ramps,              \* ramps appended to objs in the current attempt
    local_bounds,       \* bounds the ramps are validated against
    gaps,               \* gaps of the ramp loop that is running
    last_exception,     \* last ILEException caught by _post_instance
    objects,            \* scene.objects, in commit order
    goal,               \* the scene's goal: action_list and last_step
    call,               \* the last ActionService call: arguments and outcome
    room,               \* a get_room_dimensions call: template, draw, result
    settings,           \* GlobalSettingsComponent._delayed_goal and its history
    movement,           \* a turntable request and its reconciled movement
    mech                \* a thrower or placer request and its outcome

buildVars == <<pc, template, obj, tries, new_platform, below_pre_rot_pos,
               ramps, local_bounds, gaps, last_exception>>
sceneVars == <<objects>>
otherVars == <<goal, call, room, settings, movement, mech>>
vars == <<pc, template, obj, tries, new_platform, below_pre_rot_pos,
          ramps, local_bounds, gaps, last_exception, objects,
          goal, call, room, settings, movement, mech>>

-----------------------------------------------------------------------------
(* Numbers *)

Unit == 4 * 10000
RoundQuantum == Unit \div 10000

Min(a, b) == IF a <= b THEN a ELSE b
Max(a, b) == IF a >= b THEN a ELSE b
Abs(a) == IF a < 0 THEN -a ELSE a

\* Python's None and a configured value.
None == <<>>
Some(v) == <<v>>

\* round(x, 4) for x >= 0: nearest multiple of the quantum, ties to even.
Round4(x) ==
    LET q == x \div RoundQuantum
        r == x % RoundQuantum
    IN  IF 2 * r < RoundQuantum THEN q * RoundQuantum
        ELSE IF 2 * r > RoundQuantum THEN (q + 1) * RoundQuantum
        ELSE IF q % 2 = 0 THEN q * RoundQuantum ELSE (q + 1) * RoundQuantum

\* generator.MAX_TRIES: the retry ceiling of _post_instance, kept small.
MAX_TRIES == 2

PERFORMER_HALF_WIDTH == Unit \div 4
PERFORMER_WIDTH == 2 * PERFORMER_HALF_WIDTH
ATTACHED_RAMP_MIN_WIDTH == Unit \div 2
ATTACHED_RAMP_MAX_WIDTH == (3 * Unit) \div 2
ATTACHED_RAMP_MAX_LENGTH == 3 * Unit
ATTACHED_RAMP_MIN_LENGTH == Unit \div 2
BOTTOM_PLATFORM_SCALE_BUFFER_MIN == PERFORMER_WIDTH
BOTTOM_PLATFORM_SCALE_BUFFER_MAX == 5 * Unit
RAMP_ROTATIONS == <<90, 180, -90, 0>>
MaxAngle == 45

\* scene.room_dimensions (x and z) and scene.performer_start.position.
RoomDim == [x |-> 10 * Unit, z |-> 10 * Unit]
RoomHeight == 3 * Unit
PerformerStart2 == [x |-> 0, z |-> -7 * Unit]

NoObj == [kind |-> "none"]
NoPos == [none |-> TRUE]
NoException == "none"

Edges == 0 .. 3
\* _get_lip_gap: edge 0 = -x left, 1 = -z back, 2 = +x right, 3 = +z front
GapSides == <<"left", "back", "right", "front">>
SideNames == {"left", "back", "right", "front"}
EmptyGaps == [s \in SideNames |-> <<>>]
NoLips == [left |-> FALSE, back |-> FALSE, right |-> FALSE, front |-> FALSE]
ALL_LIPS == [left |-> TRUE, back |-> TRUE, right |-> TRUE, front |-> TRUE]

-----------------------------------------------------------------------------
(* Geometry *)

Cos(rot) == CASE rot % 360 = 0 -> 1 [] rot % 360 = 90 -> 0
              [] rot % 360 = 180 -> -1 [] OTHER -> 0
Sin(rot) == CASE rot % 360 = 0 -> 0 [] rot % 360 = 90 -> 1
              [] rot % 360 = 180 -> 0 [] OTHER -> -1

\* A pre-rotation position taken as it is.
WithoutRotation(x0, z0, rp, rot) == [x |-> x0, z |-> z0]

\* The transform applied to pre-rotation positions in _get_attached_ramp and
\* _add_platform_below (all coordinates doubled).
RotateAround(x0, z0, rp, rot) ==
    [x |-> (x0 - rp.x) * Cos(rot) - (z0 - rp.z) * Sin(rot) + rp.x,
     z |-> -(x0 - rp.x) * Sin(rot) - (z0 - rp.z) * Cos(rot) + rp.z]

\* Footprint rectangle (doubled corner coordinates) of an instance with
\* center pos2, x extent ex and z extent ez.
Rect(pos2, ex, ez) ==
    [xlo |-> pos2.x - ex, xhi |-> pos2.x + ex,
     zlo |-> pos2.z - ez, zhi |-> pos2.z + ez]

Intersects(a, b) ==
    /\ a.xlo <= b.xhi /\ b.xlo <= a.xhi
    /\ a.zlo <= b.zhi /\ b.zlo <= a.zhi

\* Footprint within a room of dimensions dim centered on the origin.
InRoom(r, dim) ==
    /\ -dim.x <= r.xlo /\ r.xhi <= dim.x
    /\ -dim.z <= r.zlo /\ r.zhi <= dim.z

PerformerRect ==
    Rect(PerformerStart2, PERFORMER_WIDTH, PERFORMER_WIDTH)

\* geometry.validate_location_rect
validate_location_rect(r, bounds_list, dim) ==
    /\ InRoom(r, dim)
    /\ ~Intersects(r, PerformerRect)
    /\ \A i \in 1 .. Len(bounds_list) : ~Intersects(r, bounds_list[i])

-----------------------------------------------------------------------------
(* Gaps *)

\* _get_lip_gap: the fractions are kept as numerators low, high over the
\* denominator den = 2 * plat_scale (ramp_pos2 is doubled).
_get_lip_gap(ramp_pos2, ramp_scale, plat_scale, edge) ==
    LET den == 2 * plat_scale
        high == ramp_pos2 + ramp_scale + plat_scale
        low == ramp_pos2 - ramp_scale + plat_scale
    IN  IF edge % 2 = 0
        THEN [side |-> GapSides[edge + 1], low |-> den - high,
              high |-> den - low, den |-> den]
        ELSE [side |-> GapSides[edge + 1], low |-> low, high |-> high,
              den |-> den]

\* sorted(gaps + [gap], key=low): Python's sort is stable, so the new gap
\* goes after every gap whose low is not greater.  The gaps of one side of
\* one platform have the same denominator, so the numerators are compared.
RECURSIVE InsertByLow(_, _)
InsertByLow(seq, g) ==
    IF seq = <<>> THEN <<g>>
    ELSE IF g.low < Head(seq).low
         THEN <<g>> \o seq
         ELSE <<Head(seq)>> \o InsertByLow(Tail(seq), g)

\* _add_gaps_to_dict: the stored gap is a copy without its 'side'.
_add_gaps_to_dict(gaps_dict, side, gap_to_copy) ==
    [gaps_dict EXCEPT ![side] =
        InsertByLow(@, [low |-> gap_to_copy.low, high |-> gap_to_copy.high,
                        den |-> gap_to_copy.den])]

RECURSIVE AllGaps(_)
AllGaps(gaps_list) ==
    IF gaps_list = <<>> THEN EmptyGaps
    ELSE LET g == gaps_list[Len(gaps_list)]
         IN  _add_gaps_to_dict(AllGaps(SubSeq(gaps_list, 1, Len(gaps_list) - 1)),
                               g.side, g)

RECURSIVE LipsGaps(_, _)
LipsGaps(gaps_list, lips_cfg) ==
    IF gaps_list = <<>> THEN EmptyGaps
    ELSE LET g == gaps_list[Len(gaps_list)]
             rest == LipsGaps(SubSeq(gaps_list, 1, Len(gaps_list) - 1), lips_cfg)
         IN  IF lips_cfg[g.side] THEN _add_gaps_to_dict(rest, g.side, g)
             ELSE rest

\* _add_gaps_to_object: debug['gaps'] and lips['gaps'] are assigned only when
\* the new dictionaries are not empty (a dictionary without keys is falsy).
_add_gaps_to_object(gaps_list, o) ==
    LET all_gaps == AllGaps(gaps_list)
        lips_gaps == LipsGaps(gaps_list, o.lips)
    IN  [o EXCEPT !.debug_gaps = IF all_gaps # EmptyGaps THEN all_gaps ELSE @,
                  !.lips_gaps = IF lips_gaps # EmptyGaps THEN lips_gaps ELSE @]

-----------------------------------------------------------------------------
(* Ramps attached to a platform *)

\* _get_space_around_platform, doubled: [x_negative, z_negative, x_positive,
\* z_positive].
_get_space_around_platform(top_pos2, top_scale, bottom_pos2, bottom_scale) ==
    LET dposx == bottom_pos2.x - top_pos2.x
        dposz == bottom_pos2.z - top_pos2.z
        dscalex == bottom_scale.x - top_scale.x
        dscalez == bottom_scale.z - top_scale.z
    IN  <<-dposx + dscalex, -dposz + dscalez, dposx + dscalex, dposz + dscalez>>

performer_buffer == PERFORMER_HALF_WIDTH * 2

\* max_ramp_length of an edge, doubled.
max_ramp_length2(available_lengths2, edge) ==
    Min(available_lengths2[edge + 1] - 2 * performer_buffer,
        2 * ATTACHED_RAMP_MAX_LENGTH)

\* min_ramp_length = max(round(psy / tan(radians(max_angle)), 4),
\*                       ATTACHED_RAMP_MIN_LENGTH), with max_angle = 45.
min_ramp_length(psy) == Max(Round4(psy), ATTACHED_RAMP_MIN_LENGTH)

\* A ramp width limit that forgets the platform's own edge length.
RampWidthMaxIgnoringPlatform(scale, edge) == ATTACHED_RAMP_MAX_WIDTH

\* ramp_width.max: the ramp is no wider than the platform's edge.
ramp_width_max(scale, edge) ==
    Min(ATTACHED_RAMP_MAX_WIDTH, IF edge % 2 = 0 THEN scale.z ELSE scale.x)

\* The condition under which the edge loop of _get_attached_ramp accepts an
\* edge; angle_needed = atan(psy / max_ramp_length) in [0, max_angle].
ValidEdge(scale, available_lengths2, edge) ==
    LET mx2 == max_ramp_length2(available_lengths2, edge)
    IN  /\ mx2 > 0
        /\ 2 * scale.y <= mx2 /\ scale.y >= 0
        /\ mx2 > 2 * min_ramp_length(scale.y)
        /\ ramp_width_max(scale, edge) >= ATTACHED_RAMP_MIN_WIDTH

\* An edge choice that sends both ends of the short axis to one edge.
EdgeChoicesOnOneEdge(short_scale) ==
    CASE short_scale = "none" -> Edges
      [] short_scale \in {"x-", "x+"} -> {0}
      [] OTHER -> {3}

\* edge_choices: the four edges in any order, or the one edge named by
\* short_scale_long_with_two_ramps.
EdgeChoices(short_scale) ==
    CASE short_scale = "none" -> Edges
      [] short_scale = "x-" -> {0}
      [] short_scale = "x+" -> {2}
      [] short_scale = "z-" -> {3}
      [] OTHER -> {1}

\* Values drawn from a closed range [lo, hi]: its two ends.
Sample(lo, hi) == {lo, hi}

\* The ramps _get_attached_ramp can return (one per random draw); the empty
\* set when it raises "Unable to add ramp to given platform".  The shuffled
\* edge loop stops at the first valid edge, so any valid edge can be chosen.
_get_attached_ramp(pre_rot_pos2, scale, rotation_y, rotation_point2, material, available_lengths2, short_scale) ==
    { [kind |-> "ramp",
       material |-> material,
       edge |-> edge,
       width |-> rsx,
       length |-> rsz,
       height |-> scale.y,
       rel2 |-> [x |-> rel_x, z |-> rel_z],
       pos2 |-> RotateAround(rel_x + pre_rot_pos2.x, rel_z + pre_rot_pos2.z,
                             rotation_point2, rotation_y),
       rotation |-> (rotation_y + RAMP_ROTATIONS[edge + 1]) % 360,
       gap |-> IF edge % 2 = 0
               THEN _get_lip_gap(rel_z, rsx, scale.z, edge)
               ELSE _get_lip_gap(rel_x, rsx, scale.x, edge)] :
      <<edge, rsx, rsz, rel_x, rel_z>> \in
        UNION { UNION { UNION {
          LET x_limit_out == scale.x + l
              x_limit_in == scale.x - w
              z_limit_out == scale.z + l
              z_limit_in == scale.z - w
              non_rot_x_min == <<-x_limit_out, -x_limit_in, x_limit_out, -x_limit_in>>
              non_rot_x_max == <<-x_limit_out, x_limit_in, x_limit_out, x_limit_in>>
              non_rot_z_min == <<-z_limit_in, -z_limit_out, -z_limit_in, z_limit_out>>
              non_rot_z_max == <<z_limit_in, -z_limit_out, z_limit_in, z_limit_out>>
          IN  { <<e, w, l, rx, rz>> :
                  rx \in Sample(non_rot_x_min[e + 1], non_rot_x_max[e + 1]),
                  rz \in Sample(non_rot_z_min[e + 1], non_rot_z_max[e + 1]) } :
          l \in Sample(min_ramp_length(scale.y),
                       max_ramp_length2(available_lengths2, e) \div 2) } :
          w \in Sample(ATTACHED_RAMP_MIN_WIDTH, ramp_width_max(scale, e)) } :
          e \in { c \in EdgeChoices(short_scale) :
                    ValidEdge(scale, available_lengths2, c) } } }

\* Bounding box of a ramp made by structures.create_ramp: width along x and
\* length along z at rotation 0.
RampRect(ramp) ==
    IF ramp.rotation % 180 = 0
    THEN Rect(ramp.pos2, ramp.width, ramp.length)
    ELSE Rect(ramp.pos2, ramp.length, ramp.width)

\* validate_all_locations_and_update_bounds([ramp], scene, bounds)
RampLocationValid(ramp, bounds) ==
    validate_location_rect(RampRect(ramp), bounds, RoomDim)

-----------------------------------------------------------------------------
(* adjacent_to_wall *)

AdjacentOptions ==
    {"left", "right", "front", "back", "front_left_corner",
     "front_right_corner", "back_left_corner", "back_right_corner"}

\* "1 if 'right' in adjacent_to_wall else (-1) if 'left' in adjacent_to_wall
\* else None", with 0 for None.
x_side(adjacent_to_wall) ==
    IF adjacent_to_wall \in {"right", "front_right_corner", "back_right_corner"}
    THEN 1
    ELSE IF adjacent_to_wall \in {"left", "front_left_corner", "back_left_corner"}
    THEN -1 ELSE 0

z_side(adjacent_to_wall) ==
    IF adjacent_to_wall \in {"front", "front_left_corner", "front_right_corner"}
    THEN 1
    ELSE IF adjacent_to_wall \in {"back", "back_left_corner", "back_right_corner"}
    THEN -1 ELSE 0

\* _calculate_adjacent_to_wall_pos (positions doubled):
\* "(room_dim_x / 2 * x_side) + (scale_x / 2 * -x_side)"
_calculate_adjacent_to_wall_pos(room_dim, adjacent_to_wall, pos2, scale) ==
    [x |-> IF x_side(adjacent_to_wall) # 0
           THEN room_dim.x * x_side(adjacent_to_wall)
                    + scale.x * (0 - x_side(adjacent_to_wall))
           ELSE pos2.x,
     z |-> IF z_side(adjacent_to_wall) # 0
           THEN room_dim.z * z_side(adjacent_to_wall)
                    + scale.z * (0 - z_side(adjacent_to_wall))
           ELSE pos2.z]

\* The rotation_y that create_feature_from_specific_values forces for an
\* adjacent_to_wall option.
AdjacentRotation(adjacent_to_wall) ==
    CASE adjacent_to_wall \in {"left", "right"} -> 0
      [] adjacent_to_wall \in {"back_right_corner", "front_left_corner"} -> 90
      [] adjacent_to_wall \in {"front", "back"} -> 180
      [] OTHER -> 270

-----------------------------------------------------------------------------
(* Platform underneath *)

PLATFORM_WITH_LIPS_SCALE_MIN == (4 * Unit) \div 5

\* _get_under_platform_position_scale: the <<x0, z0, scale_x, scale_z>> it can
\* return (positions doubled).
_get_under_platform_position_scale(top_scale, top_position2, max_room_dim, long_with_two_ramps) ==
    LET scale_min_buffer ==
            Max(top_scale.y + BOTTOM_PLATFORM_SCALE_BUFFER_MIN, top_scale.y * 2)
        scale_max_buffer ==
            Min(max_room_dim - PERFORMER_WIDTH - Min(top_scale.x, top_scale.z),
                top_scale.y + BOTTOM_PLATFORM_SCALE_BUFFER_MAX)
        scales_x == IF long_with_two_ramps /\ top_scale.x > top_scale.z
                    THEN {top_scale.x}
                    ELSE Sample(top_scale.x + scale_min_buffer,
                                top_scale.x + scale_max_buffer)
        scales_z == IF long_with_two_ramps /\ top_scale.z > top_scale.x
                    THEN {top_scale.z}
                    ELSE Sample(top_scale.z + scale_min_buffer,
                                top_scale.z + scale_max_buffer)
        \* _get_pre_rotate_under_position
        under_pos(top_pos, ts, bs) ==
            IF long_with_two_ramps THEN {top_pos}
            ELSE Sample(top_pos + ts - bs, top_pos - ts + bs)
    IN  UNION { UNION {
          { <<x0, z0, sx, sz>> :
              x0 \in under_pos(top_position2.x, top_scale.x, sx),
              z0 \in under_pos(top_position2.z, top_scale.z, sz) } :
          sz \in scales_z } : sx \in scales_x }

\* "if top_template.adjacent_to_wall: x0, z0 = _calculate_adjacent_to_wall_pos"
UnderPreRotationPos(top_template, c) ==
    IF top_template.adjacent_to_wall # None
    THEN _calculate_adjacent_to_wall_pos(
             RoomDim, top_template.adjacent_to_wall[1],
             [x |-> c[1], z |-> c[2]], [x |-> c[3], z |-> c[4]])
    ELSE [x |-> c[1], z |-> c[2]]

\* _add_platform_below: the <<new_platform, pre-rotation position>> pairs it
\* can return.  The platform is created by StructuralPlatformCreationService
\* from position (x, 0, z) rotated around rotation_point, the top platform's
\* rotation, scale (scale_x, min_y, scale_z) and the top platform's lips.
_add_platform_below(o, rotation_point2, top_template) ==
    { [platform |->
         [kind |-> "platform",
          pos2 |-> RotateAround(UnderPreRotationPos(top_template, c).x,
                                UnderPreRotationPos(top_template, c).z,
                                rotation_point2, o.rotation_y),
          scale |-> [x |-> IF top_template.lips.left \/ top_template.lips.right
                            \/ top_template.long_with_two_ramps
                           THEN Max(c[3], PLATFORM_WITH_LIPS_SCALE_MIN) ELSE c[3],
                     y |-> Min(o.min_y, RoomHeight),
                     z |-> IF top_template.lips.front \/ top_template.lips.back
                            \/ top_template.long_with_two_ramps
                           THEN Max(c[4], PLATFORM_WITH_LIPS_SCALE_MIN) ELSE c[4]],
          rotation_y |-> o.rotation_y,
          min_y |-> 0,
          lips |-> IF top_template.long_with_two_ramps THEN ALL_LIPS
                   ELSE top_template.lips,
          lips_gaps |-> EmptyGaps,
          debug_gaps |-> EmptyGaps,
          labels |-> {"platforms", "connected_to_ramp"}],
       pre_rot_pos2 |-> UnderPreRotationPos(top_template, c)] :
      c \in _get_under_platform_position_scale(
                o.scale, o.pos2, Max(RoomDim.x, RoomDim.z),
                top_template.long_with_two_ramps) }

-----------------------------------------------------------------------------
(* Platform requests *)

Request(pos2, scale, rot, posY, lips, n, under, nUnder, long) ==
    [position2 |-> pos2, scale |-> scale, rotation_y |-> rot,
     position_y |-> posY, lips |-> lips, attached_ramps |-> n,
     platform_underneath |-> under,
     platform_underneath_attached_ramps |-> nUnder,
     long_with_two_ramps |-> long,
     adjacent_to_wall |-> None]

Origin2 == [x |-> 0, z |-> 0]
OffCenter2 == [x |-> 4 * Unit, z |-> -4 * Unit]
LeftLip == [left |-> TRUE, back |-> FALSE, right |-> FALSE, front |-> FALSE]

\* scale 2 (the 10x10x3 scenario), an off-grid height on a non-square
\* platform, and a platform as high as the longest attached ramp.
Cube2 == [x |-> 2 * Unit, y |-> 2 * Unit, z |-> 2 * Unit]
OffGrid == [x |-> Unit, y |-> Unit + 1, z |-> 2 * Unit]
TooHigh == [x |-> 2 * Unit, y |-> 3 * Unit, z |-> 2 * Unit]
Small == [x |-> Unit \div 2, y |-> Unit, z |-> Unit \div 2]
Thin == [x |-> Unit, y |-> Unit, z |-> Unit]

PlatformRequests ==
    { Request(Origin2, sc, rot, 0, lips, n, FALSE, 0, FALSE) :
        sc \in {Cube2, OffGrid, TooHigh}, rot \in {0, 90},
        lips \in {NoLips, LeftLip}, n \in {0, 1, 2} }
    \cup
    { Request(pos, Small, 0, Unit, LeftLip, n, TRUE, nUnder, FALSE) :
        pos \in {Origin2, OffCenter2}, n \in {0, 1}, nUnder \in {0, 1} }
    \cup
    { Request(Origin2, Thin, 90, Unit \div 2, NoLips, 0, under, 0, TRUE) :
        under \in BOOLEAN }


-----------------------------------------------------------------------------
(* _post_instance and _add_platform_attached_objects *)

TopMaterial == "top_material"
UnderMaterial == "under_material"

\* ramps_to_add of the two ramp loops of _add_platform_attached_objects.
TopRampsToAdd(t) ==
    IF t.long_with_two_ramps THEN 2 ELSE t.attached_ramps

\* A second ramp loop that counts with the top platform's attached_ramps.
UnderRampsToAddFromTop(t) ==
    IF t.long_with_two_ramps THEN 2 ELSE t.attached_ramps

UnderRampsToAdd(t) ==
    IF t.long_with_two_ramps THEN 2 ELSE t.platform_underneath_attached_ramps

\* short_scales[i] (i from 0), or "none" without long_with_two_ramps.
ShortScale(t, o, i) ==
    IF ~t.long_with_two_ramps THEN "none"
    ELSE IF o.scale.x < o.scale.z THEN <<"x-", "x+">>[i + 1]
         ELSE <<"z-", "z+">>[i + 1]

RoomPos2 == [x |-> 0, z |-> 0]

\* available_lengths of the ramps of the top platform.
TopAvailableLengths(o, below_pos2, below) ==
    IF below_pos2 # NoPos
    THEN _get_space_around_platform(o.pos2, o.scale, below_pos2, below.scale)
    ELSE _get_space_around_platform(o.pos2, o.scale, RoomPos2, RoomDim)

\* available_lengths of the ramps of the platform underneath.
UnderAvailableLengths(below_pos2, below) ==
    _get_space_around_platform(below_pos2, below.scale, RoomPos2, RoomDim)

\* An _add_valid_ramp that appends the ramp without validating its location.
AddRampWithoutValidation(bounds, candidates) == candidates

\* _add_valid_ramp: the ramps it can append to objs; it raises for a draw
\* whose ramp fails validate_all_locations_and_update_bounds.
_add_valid_ramp(bounds, candidates) ==
    { r \in candidates : RampLocationValid(r, bounds) }

TopCandidates ==
    _get_attached_ramp(obj.pos2, obj.scale, obj.rotation_y, obj.pos2,
                       TopMaterial,
                       TopAvailableLengths(obj, below_pre_rot_pos, new_platform),
                       ShortScale(template, obj, Len(gaps)))

UnderCandidates ==
    _get_attached_ramp(below_pre_rot_pos, new_platform.scale, obj.rotation_y,
                       obj.pos2, UnderMaterial,
                       UnderAvailableLengths(below_pre_rot_pos, new_platform),
                       ShortScale(template, obj, Len(gaps)))

HasUnderLoop(t, below) ==
    (t.platform_underneath_attached_ramps > 0 \/ t.long_with_two_ramps)
    /\ below # NoObj

\* StructuralPlatformCreationService: _handle_dependent_defaults,
\* create_feature_from_specific_values and the start of _post_instance.
CreatePlatform ==
    /\ pc = "idle"
    /\ \E req \in PlatformRequests, use_long_x \in BOOLEAN :
        LET long == req.long_with_two_ramps
            lips == IF long THEN ALL_LIPS ELSE req.lips
            sx0 == IF req.lips.left \/ req.lips.right
                   THEN Max(req.scale.x, PLATFORM_WITH_LIPS_SCALE_MIN)
                   ELSE req.scale.x
            sz0 == IF req.lips.front \/ req.lips.back
                   THEN Max(req.scale.z, PLATFORM_WITH_LIPS_SCALE_MIN)
                   ELSE req.scale.z
            composite == req.platform_underneath \/ req.attached_ramps > 0 \/ long
        IN  /\ (~long => use_long_x)
            /\ template' = [req EXCEPT !.rotation_y = IF long THEN 0 ELSE @]
            /\ obj' =
                [kind |-> "platform",
                 pos2 |-> [x |-> IF long /\ use_long_x THEN 0 ELSE req.position2.x,
                           z |-> IF long /\ ~use_long_x THEN 0 ELSE req.position2.z],
                 scale |-> [x |-> IF long /\ use_long_x THEN RoomDim.x ELSE sx0,
                            y |-> Min(req.scale.y, RoomHeight),
                            z |-> IF long /\ ~use_long_x THEN RoomDim.z ELSE sz0],
                 rotation_y |-> IF long THEN 0 ELSE req.rotation_y,
                 min_y |-> req.position_y,
                 lips |-> lips,
                 lips_gaps |-> EmptyGaps,
                 debug_gaps |-> EmptyGaps,
                 labels |-> IF composite THEN {"platforms", "connected_to_ramp"}
                            ELSE {"platforms"}]
            /\ pc' = IF composite THEN "attempt" ELSE "done"
    /\ UNCHANGED <<tries, new_platform, below_pre_rot_pos, ramps, local_bounds,
                   gaps, last_exception, sceneVars, otherVars>>

\* One pass of "for _ in range(MAX_TRIES)": _add_platform_attached_objects up
\* to its first ramp loop.
BeginAttempt ==
    /\ pc = "attempt"
    /\ tries < MAX_TRIES
    /\ IF template.platform_underneath
       THEN \E b \in _add_platform_below(obj, obj.pos2, template) :
              /\ new_platform' = b.platform
              /\ below_pre_rot_pos' = b.pre_rot_pos2
              /\ pc' = IF TopRampsToAdd(template) > 0 THEN "top_ramps"
                       ELSE IF HasUnderLoop(template, b.platform)
                            THEN "under_ramps" ELSE "done"
       ELSE /\ new_platform' = NoObj
            /\ below_pre_rot_pos' = NoPos
            /\ pc' = IF TopRampsToAdd(template) > 0 THEN "top_ramps" ELSE "done"
    /\ ramps' = <<>>
    /\ local_bounds' = <<>>
    /\ gaps' = <<>>
    /\ UNCHANGED <<template, obj, tries, last_exception, sceneVars, otherVars>>

\* A retry that does not count the failed attempt.
RaiseWithoutCounting(e) ==
    /\ last_exception' = e
    /\ pc' = "attempt"
    /\ new_platform' = NoObj
    /\ below_pre_rot_pos' = NoPos
    /\ ramps' = <<>>
    /\ local_bounds' = <<>>
    /\ gaps' = <<>>
    /\ UNCHANGED <<tries, template, obj, sceneVars, otherVars>>

\* "except ILEException as e" of _post_instance: everything the attempt built
\* is dropped with its frame; obj, which the attempt mutated, is not restored.
Raise(e) ==
    /\ tries' = tries + 1
    /\ last_exception' = e
    /\ pc' = IF tries + 1 = MAX_TRIES THEN "failed" ELSE "attempt"
    /\ new_platform' = NoObj
    /\ below_pre_rot_pos' = NoPos
    /\ ramps' = <<>>
    /\ local_bounds' = <<>>
    /\ gaps' = <<>>
    /\ UNCHANGED <<template, obj, sceneVars, otherVars>>

Attach(r) ==
    /\ ramps' = Append(ramps, r)
    /\ local_bounds' = Append(local_bounds, RampRect(r))
    /\ gaps' = Append(gaps, r.gap)
    /\ UNCHANGED <<pc, template, obj, tries, new_platform, below_pre_rot_pos,
                   last_exception, sceneVars, otherVars>>

\* One iteration of the ramp loop of the top platform.
AttachTopRamp ==
    /\ pc = "top_ramps"
    /\ Len(gaps) < TopRampsToAdd(template)
    /\ \E r \in _add_valid_ramp(local_bounds, TopCandidates) : Attach(r)

AttachTopRampRaises ==
    /\ pc = "top_ramps"
    /\ Len(gaps) < TopRampsToAdd(template)
    /\ \/ /\ TopCandidates = {}
          /\ Raise("no_valid_edge")
       \/ /\ TopCandidates \ _add_valid_ramp(local_bounds, TopCandidates) # {}
          /\ Raise("no_valid_location")

\* _add_gaps_to_object(gaps, obj) after the first loop.
RecordTopGaps ==
    /\ pc = "top_ramps"
    /\ Len(gaps) = TopRampsToAdd(template)
    /\ obj' = _add_gaps_to_object(gaps, obj)
    /\ gaps' = <<>>
    /\ pc' = IF HasUnderLoop(template, new_platform) THEN "under_ramps"
             ELSE "done"
    /\ UNCHANGED <<template, tries, new_platform, below_pre_rot_pos, ramps,
                   local_bounds, last_exception, sceneVars, otherVars>>

\* One iteration of the ramp loop of the platform underneath.
AttachUnderRamp ==
    /\ pc = "under_ramps"
    /\ Len(gaps) < UnderRampsToAdd(template)
    /\ \E r \in _add_valid_ramp(local_bounds, UnderCandidates) : Attach(r)

AttachUnderRampRaises ==
    /\ pc = "under_ramps"
    /\ Len(gaps) < UnderRampsToAdd(template)
    /\ \/ /\ UnderCandidates = {}
          /\ Raise("no_valid_edge")
       \/ /\ UnderCandidates \ _add_valid_ramp(local_bounds, UnderCandidates) # {}
          /\ Raise("no_valid_location")

\* _add_gaps_to_object(gaps, new_platform) and "return objs".
RecordUnderGaps ==
    /\ pc = "under_ramps"
    /\ Len(gaps) = UnderRampsToAdd(template)
    /\ new_platform' = _add_gaps_to_object(gaps, new_platform)
    /\ gaps' = <<>>
    /\ pc' = "done"
    /\ UNCHANGED <<template, obj, tries, below_pre_rot_pos, ramps, local_bounds,
                   last_exception, sceneVars, otherVars>>

\* goal before any restriction is added; no call made yet.
EmptyGoal == [action_list |-> <<>>, last_step |-> None]
NoCall == [fn |-> "none"]
Idle == [pc |-> "idle"]

Init ==
    /\ pc = "idle"
    /\ template = NoObj
    /\ obj = NoObj
    /\ tries = 0
    /\ new_platform = NoObj
    /\ below_pre_rot_pos = NoPos
    /\ ramps = <<>>
    /\ local_bounds = <<>>
    /\ gaps = <<>>
    /\ last_exception = NoException
    /\ objects = <<>>
    /\ goal = EmptyGoal
    /\ call = NoCall
    /\ room = Idle
    /\ settings = Idle
    /\ movement = Idle
    /\ mech = Idle

Next ==
    \/ CreatePlatform
    \/ BeginAttempt
    \/ AttachTopRamp
    \/ AttachTopRampRaises
    \/ RecordTopGaps
    \/ AttachUnderRamp
    \/ AttachUnderRampRaises
    \/ RecordUnderGaps

Spec == Init /\ [][Next]_vars

-----------------------------------------------------------------------------
(* Committed placements: walls, throwers and placers with their is_valid
   overrides, and platforms as a feature validated by the base is_valid.
   An instance is identified by its index in objects. *)

MaxObjects == 3

WallWidth == 2 * Unit
WallThickness == Unit \div 10
PlatformSize == Unit
ProjectileSize == Unit \div 2
ThrowerSize == Unit
PlacerSize == Unit \div 4

ScenePositions ==
    { [x |-> 0, z |-> 0], [x |-> 0, z |-> Unit], [x |-> 0, z |-> 0 - Unit],
      [x |-> 4 * Unit + (2 * Unit) \div 5, z |-> 0] }

Instance(kind, pos2, rotation_y, sx, sz) ==
    [kind |-> kind, pos2 |-> pos2, rotation_y |-> rotation_y,
     scale |-> [x |-> sx, z |-> sz],
     rect |-> IF rotation_y % 180 = 0 THEN Rect(pos2, sx, sz)
              ELSE Rect(pos2, sz, sx),
     ignoreBounds |-> FALSE, positionedBy |-> "none", heldObjectId |-> 0,
     repositioned |-> FALSE]

\* structures.create_interior_wall with debug.ignoreBounds set.
create_interior_wall(pos2, rotation_y, ignore_bounds) ==
    [Instance("wall", pos2, rotation_y, WallWidth, WallThickness)
        EXCEPT !.ignoreBounds = ignore_bounds]

\* geometry.move_to_location: the instance at a new position.
move_to_location(o, pos2) ==
    [o EXCEPT !.pos2 = pos2,
              !.rect = Rect(pos2, o.rect.xhi - o.pos2.x, o.rect.zhi - o.pos2.z)]

\* find_bounds(scene, ignore_ids): the footprints of the scene's objects.
find_bounds(scene_objects, ignore_ids) ==
    LET kept == SelectSeq([i \in 1 .. Len(scene_objects) |->
                              [id |-> i, rect |-> scene_objects[i].rect]],
                          LAMBDA b : b.id \notin ignore_ids)
    IN  [i \in 1 .. Len(kept) |-> kept[i].rect]

\* BaseObjectCreationService.is_valid: every new instance is at a valid
\* location with respect to the given bounds.
BaseIsValid(new_obj, bounds, room_dim) ==
    \A i \in 1 .. Len(new_obj) :
        validate_location_rect(new_obj[i].rect, bounds, room_dim)

\* is_wall_too_close (distances doubled); the labelled walls of the object
\* repository are the committed walls.
is_wall_too_close(new_wall, scene_objects) ==
    /\ new_wall.rotation_y % 90 = 0
    /\ \E i \in 1 .. Len(scene_objects) :
        LET old_wall == scene_objects[i]
            horizontal == old_wall.rotation_y % 180 = 0
            major == IF horizontal THEN "z" ELSE "x"
            minor == IF horizontal THEN "x" ELSE "z"
            distance_adjacent ==
                Abs(new_wall.pos2[minor] - old_wall.pos2[minor])
                    - old_wall.scale.x - new_wall.scale.x
            distance_across ==
                Abs(new_wall.pos2[major] - old_wall.pos2[major])
                    - old_wall.scale.z - new_wall.scale.z
        IN  /\ old_wall.kind = "wall"
            /\ old_wall.rotation_y % 90 = 0
            /\ horizontal = (new_wall.rotation_y % 180 = 0)
            /\ ~(distance_adjacent > 0)
            /\ distance_across < 2 * PERFORMER_WIDTH

\* A wall is_valid that validates against no bounds at all.
WallIsValidWithoutBounds(scene_objects, new_obj) ==
    /\ ~is_wall_too_close(new_obj[1], scene_objects)
    /\ BaseIsValid(new_obj, <<>>, RoomDim)

\* A wall is_valid that does not look at the other walls' distances.
WallIsValidWithoutCloseness(scene_objects, new_obj) ==
    BaseIsValid(new_obj,
                IF new_obj[1].ignoreBounds THEN <<>>
                ELSE find_bounds(scene_objects, {}),
                RoomDim)

\* StructuralWallCreationService.is_valid
WallIsValid(scene_objects, new_obj) ==
    /\ ~is_wall_too_close(new_obj[1], scene_objects)
    /\ BaseIsValid(new_obj,
                   IF new_obj[1].ignoreBounds THEN <<>>
                   ELSE find_bounds(scene_objects, {}),
                   RoomDim)

\* StructuralThrowerCreationService.is_valid
ThrowerIsValid(scene_objects, new_obj) ==
    BaseIsValid(new_obj, find_bounds(scene_objects, {}),
                [x |-> RoomDim.x + 2 * Unit, z |-> RoomDim.z + 2 * Unit])

\* StructuralPlacersCreationService.is_valid
PlacerIsValid(scene_objects, new_obj) ==
    LET ignore_ids == { i \in 1 .. Len(scene_objects) :
                          \/ scene_objects[i].kind = "placer"
                          \/ scene_objects[i].positionedBy = "mechanism" }
    IN  BaseIsValid(new_obj, find_bounds(scene_objects, ignore_ids), RoomDim)

\* What a mechanism is built for: nothing (no_projectile, empty_placer), a new
\* object, or the existing object with that index.
NoTarget == 0 - 1
NewTarget == 0

\* _get_existing_held_object_idl: the committed objects a new mechanism can
\* take, those not yet given a final position.
ExistingHeldObjects ==
    { i \in 1 .. Len(objects) :
        objects[i].kind = "platform" /\ objects[i].positionedBy = "none" }

\* A platform without attached objects, validated by the base is_valid.
AddPlatform ==
    /\ Len(objects) < MaxObjects
    /\ \E pos2 \in ScenePositions :
        LET new_obj == <<Instance("platform", pos2, 0, PlatformSize, PlatformSize)>>
        IN  /\ BaseIsValid(new_obj, find_bounds(objects, {}), RoomDim)
            /\ objects' = objects \o new_obj
    /\ UNCHANGED <<buildVars, otherVars>>

AddWall ==
    /\ Len(objects) < MaxObjects
    /\ \E pos2 \in ScenePositions, rotation_y \in {0, 90},
          ignore_bounds \in BOOLEAN :
        LET new_obj == <<create_interior_wall(pos2, rotation_y, ignore_bounds)>>
        IN  /\ WallIsValid(objects, new_obj)
            /\ objects' = objects \o new_obj
    /\ UNCHANGED <<buildVars, otherVars>>

\* Position of a thrower on the left or right wall (doubled).
ThrowerPos2(wall, position_wall2) ==
    [x |-> (IF wall = "left" THEN -1 ELSE 1) * (RoomDim.x - ProjectileSize),
     z |-> position_wall2]

\* _do_post_add: mechanisms.throw_object puts the target into the thrower.
ThrowInto(o, thrower) ==
    [move_to_location(o, thrower.pos2) EXCEPT !.positionedBy = "mechanism"]

\* A thrower without projectile, with a new projectile (made at start2) or
\* with an existing object as its projectile.
AddThrower ==
    /\ \E wall \in {"left", "right"}, position_wall2 \in {0, Unit},
          target \in {NoTarget, NewTarget} \cup ExistingHeldObjects,
          start2 \in ScenePositions :
        LET thrower == Instance("thrower", ThrowerPos2(wall, position_wall2),
                                0, ThrowerSize, ThrowerSize)
            projectile == [Instance("projectile", start2, 0,
                                    ProjectileSize, ProjectileSize)
                              EXCEPT !.positionedBy = "mechanism"]
            new_obj == IF target = NewTarget THEN <<thrower, projectile>>
                       ELSE <<thrower>>
            id == Len(objects) + 1
        IN  /\ Len(objects) + Len(new_obj) <= MaxObjects
            /\ ThrowerIsValid(objects, new_obj)
            /\ objects' =
                 CASE target = NoTarget -> objects \o new_obj
                   [] target = NewTarget ->
                        objects \o <<[thrower EXCEPT !.heldObjectId = id + 1],
                                     ThrowInto(projectile, thrower)>>
                   [] OTHER ->
                        [objects EXCEPT ![target] = ThrowInto(@, thrower)]
                            \o <<[thrower EXCEPT !.heldObjectId = target]>>
    /\ UNCHANGED <<buildVars, otherVars>>

\* A placer that is empty, holds a new object, or holds an existing object.
\* An existing object is moved under the placer before the placer is
\* validated, and stays there when the placer is rejected.
AddPlacer ==
    /\ \E pos2 \in ScenePositions,
          target \in {NoTarget, NewTarget} \cup ExistingHeldObjects :
        LET placer == Instance("placer", pos2, 0, PlacerSize, PlacerSize)
            held == [Instance("held", pos2, 0, ProjectileSize, ProjectileSize)
                        EXCEPT !.positionedBy = "mechanism"]
            id == Len(objects) + 1
            scene_objects ==
                IF target \in {NoTarget, NewTarget} THEN objects
                ELSE [objects EXCEPT ![target] =
                        [move_to_location(@, pos2)
                            EXCEPT !.positionedBy = "mechanism",
                                   !.repositioned = TRUE]]
            objs == CASE target = NoTarget -> <<placer>>
                      [] target = NewTarget ->
                           <<held, [placer EXCEPT !.heldObjectId = id]>>
                      [] OTHER -> <<[placer EXCEPT !.heldObjectId = target]>>
        IN  /\ Len(objects) + Len(objs) <= MaxObjects
            /\ objects' = IF PlacerIsValid(scene_objects, objs)
                          THEN scene_objects \o objs
                          ELSE scene_objects
            /\ objects' # objects
    /\ UNCHANGED <<buildVars, otherVars>>

SceneNext ==
    \/ AddPlatform
    \/ AddWall
    \/ AddThrower
    \/ AddPlacer

SceneSpec == Init /\ [][SceneNext]_vars

ObjectIds == 1 .. Len(objects)

Mechanical(o) == o.kind = "placer" \/ o.positionedBy = "mechanism"

Holds(i, j) ==
    objects[i].kind \in {"placer", "thrower"} /\ objects[i].heldObjectId = j

Walls == { i \in ObjectIds : objects[i].kind = "wall" }

Parallel(a, b) == (a.rotation_y % 180 = 0) = (b.rotation_y % 180 = 0)

\* Free space between two footprints along x and along z (doubled).
Separation(a, b) ==
    [x |-> Max(0, Max(a.xlo - b.xhi, b.xlo - a.xhi)),
     z |-> Max(0, Max(a.zlo - b.zhi, b.zlo - a.zhi))]

\* Free space along and across the direction of two parallel walls.
Along(a, b) ==
    IF a.rotation_y % 180 = 0 THEN Separation(a.rect, b.rect).x
    ELSE Separation(a.rect, b.rect).z

Across(a, b) ==
    IF a.rotation_y % 180 = 0 THEN Separation(a.rect, b.rect).z
    ELSE Separation(a.rect, b.rect).x

\* C14 as stated: no wall is committed within one performer width of an
\* earlier parallel wall, whether their bounds intersect or not and whether
\* the wall has ignore_bounds or not.
C14_NoParallelWallWithinPerformerWidth ==
    \A i, j \in Walls :
        (i < j /\ Parallel(objects[i], objects[j])) =>
            ~(\/ Along(objects[i], objects[j]) = 0
                   /\ Across(objects[i], objects[j]) < 2 * PERFORMER_WIDTH
              \/ Across(objects[i], objects[j]) = 0
                   /\ Along(objects[i], objects[j]) < 2 * PERFORMER_WIDTH)

\* C14 amended: no wall is committed alongside an earlier parallel wall (the
\* two overlap or touch along their length) with less than one performer
\* width between them, whether their bounds intersect or not and whether the
\* wall has ignore_bounds or not; walls end to end are not checked.
C14_NoParallelWallAlongsideWithinPerformerWidth ==
    \A i, j \in Walls :
        (/\ i < j
         /\ Parallel(objects[i], objects[j])
         /\ Along(objects[i], objects[j]) = 0)
            => Across(objects[i], objects[j]) >= 2 * PERFORMER_WIDTH

C14_Witness ==
    \E i, j \in Walls :
        /\ i < j
        /\ Parallel(objects[i], objects[j])
        /\ Along(objects[i], objects[j]) = 0
        /\ objects[j].ignoreBounds
        /\ \E k \in Walls : k # i /\ k # j /\ ~Parallel(objects[i], objects[k])

-----------------------------------------------------------------------------
(* Fairness: the engine is single-threaded and synchronous, so a request that
   can take a step takes it. *)
LiveSpec == Init /\ [][Next]_vars /\ WF_vars(Next)

-----------------------------------------------------------------------------
(* Properties of the composite build *)

RampsOf(material) == SelectSeq(ramps, LAMBDA r : r.material = material)

RECURSIVE GapsOfRamps(_)
GapsOfRamps(rs) ==
    IF rs = <<>> THEN <<>> ELSE <<Head(rs).gap>> \o GapsOfRamps(Tail(rs))

Returned == pc = "done"
Failed == pc = "failed"

\* C2: nothing of a discarded attempt survives: on return the gaps recorded on
\* each platform (debug.gaps and lips.gaps) are exactly those of the ramps the
\* returning attempt attached, and after the last failure no ramp and no
\* platform underneath is left.
C2_NothingOfADiscardedAttemptSurvives ==
    /\ Returned =>
        /\ obj.debug_gaps = AllGaps(GapsOfRamps(RampsOf(TopMaterial)))
        /\ obj.lips_gaps = LipsGaps(GapsOfRamps(RampsOf(TopMaterial)), obj.lips)
        /\ new_platform # NoObj =>
            /\ new_platform.debug_gaps =
                 AllGaps(GapsOfRamps(RampsOf(UnderMaterial)))
            /\ new_platform.lips_gaps =
                 LipsGaps(GapsOfRamps(RampsOf(UnderMaterial)), new_platform.lips)
    /\ Failed => ramps = <<>> /\ new_platform = NoObj

\* The available lengths a ramp of the current attempt was made from.
AvailableFor(r) ==
    IF r.material = TopMaterial
    THEN TopAvailableLengths(obj, below_pre_rot_pos, new_platform)
    ELSE UnderAvailableLengths(below_pre_rot_pos, new_platform)

RampSet == { ramps[i] : i \in 1 .. Len(ramps) }

\* C3: every attached ramp has an incline of at most max_angle (45 degrees:
\* height <= length), and a length between the minimum ramp length and
\* min(available_lengths[edge] - performer buffer, ATTACHED_RAMP_MAX_LENGTH).
C3_RampAngleAndLength ==
    \A r \in RampSet :
        /\ r.height <= r.length
        /\ r.length >= ATTACHED_RAMP_MIN_LENGTH
        /\ 2 * r.length <= Min(AvailableFor(r)[r.edge + 1] - 2 * performer_buffer,
                               2 * ATTACHED_RAMP_MAX_LENGTH)

\* C4: every gap of an attached ramp has 0 <= low < high <= 1 (numerators over
\* the gap's denominator), on all four edges.
C4_GapFractions ==
    \A r \in RampSet :
        /\ 0 <= r.gap.low
        /\ r.gap.low < r.gap.high
        /\ r.gap.high <= r.gap.den

C4_Witness ==
    /\ \E r \in RampSet : r.edge = 0 /\ r.gap.low = 0
    /\ \E r \in RampSet : r.edge = 1 /\ r.gap.high = r.gap.den

NoOverlap(seq) ==
    \A i \in 1 .. Len(seq) - 1 : seq[i].high <= seq[i + 1].low

\* C5: after a successful build, the gaps stored under one side of one
\* platform (sorted by low) do not overlap: g1.high <= g2.low.
C5_GapsDoNotOverlap ==
    Returned =>
        \A s \in SideNames :
            /\ NoOverlap(obj.debug_gaps[s])
            /\ NoOverlap(obj.lips_gaps[s])
            /\ new_platform # NoObj =>
                /\ NoOverlap(new_platform.debug_gaps[s])
                /\ NoOverlap(new_platform.lips_gaps[s])

C5_Witness ==
    /\ Returned
    /\ \E s \in SideNames : Len(obj.debug_gaps[s]) >= 2

\* The side of platform p (rotation 0) at which ramp r lies, by position.
ActualSide(r, p) ==
    LET dx == r.pos2.x - p.pos2.x
        dz == r.pos2.z - p.pos2.z
    IN  CASE dx < -p.scale.x -> "left"
          [] dx > p.scale.x -> "right"
          [] dz < -p.scale.z -> "back"
          [] OTHER -> "front"

\* C6: at platform rotation 0, the gap's side (left = -X, back = -Z,
\* right = +X, front = +Z) is the side of the platform at which the ramp is
\* positioned, and [low, high] is the ramp's width along that edge, measured
\* from the edge's negative end.
C6_GapAlignsWithRamp ==
    \A r \in RampSet :
        (r.material = TopMaterial /\ obj.rotation_y = 0) =>
            LET d == IF r.gap.side \in {"left", "right"}
                     THEN r.pos2.z - obj.pos2.z ELSE r.pos2.x - obj.pos2.x
                ps == IF r.gap.side \in {"left", "right"}
                      THEN obj.scale.z ELSE obj.scale.x
            IN  /\ r.gap.side = ActualSide(r, obj)
                /\ r.gap.low = d - r.width + ps
                /\ r.gap.high = d + r.width + ps
                /\ r.gap.den = 2 * ps

\* C7: a successful build returns exactly attached_ramps ramps on the
\* platform and exactly platform_underneath_attached_ramps ramps on the
\* platform underneath (when platform_underneath is set); long_with_two_ramps
\* makes both counts 2.
C7_RampCounts ==
    Returned =>
        /\ Len(RampsOf(TopMaterial)) =
             IF template.long_with_two_ramps THEN 2 ELSE template.attached_ramps
        /\ Len(RampsOf(UnderMaterial)) =
             IF ~template.platform_underneath THEN 0
             ELSE IF template.long_with_two_ramps THEN 2
             ELSE template.platform_underneath_attached_ramps
        /\ (new_platform # NoObj) = template.platform_underneath

C7_Witness ==
    /\ Returned
    /\ template.long_with_two_ramps
    /\ new_platform # NoObj
    /\ Len(ramps) = 4

\* Length of the edge of platform p that edge index e names (edges 0 and 2
\* run along z, edges 1 and 3 along x).
EdgeLength(p, e) == IF e % 2 = 0 THEN p.scale.z ELSE p.scale.x

LongTopRamps == Returned /\ template.long_with_two_ramps

\* C8 as stated: with long_with_two_ramps the two ramps are on the two edges
\* whose length is the platform's smaller horizontal scale, one per edge.
C8_RampsOnShortEdges ==
    LongTopRamps =>
        LET rs == RampsOf(TopMaterial)
        IN  /\ \A i \in 1 .. Len(rs) :
                 EdgeLength(obj, rs[i].edge) = Min(obj.scale.x, obj.scale.z)
            /\ rs[1].edge # rs[2].edge

\* C8 amended: with long_with_two_ramps the two ramps are on the two opposite
\* edges that run along the platform's long axis (their length is the larger
\* horizontal scale; the ramps descend along the short axis), one per edge.
C8_RampsOnLongSides ==
    LongTopRamps =>
        LET rs == RampsOf(TopMaterial)
        IN  /\ \A i \in 1 .. Len(rs) :
                 EdgeLength(obj, rs[i].edge) = Max(obj.scale.x, obj.scale.z)
            /\ rs[1].edge # rs[2].edge
            /\ rs[1].edge % 2 = rs[2].edge % 2

C8_Witness ==
    /\ LongTopRamps
    /\ obj.scale.x # obj.scale.z

TwoRampScenario ==
    /\ Returned
    /\ ~template.long_with_two_ramps
    /\ template.attached_ramps = 2
    /\ obj.scale = Cube2
    /\ obj.rotation_y = 0

\* C9 as stated: in the scenario (room 10x10x3, scale 2, attached_ramps 2,
\* rotation_y 0) the two ramps are on two distinct edges.
C9_DistinctEdges ==
    TwoRampScenario => ramps[1].edge # ramps[2].edge

\* C9 amended: the two ramps never intersect; they are on two distinct edges
\* or on one edge with disjoint gaps.
C9_DisjointRamps ==
    TwoRampScenario =>
        /\ ~Intersects(RampRect(ramps[1]), RampRect(ramps[2]))
        /\ \/ ramps[1].edge # ramps[2].edge
           \/ ramps[1].gap.high < ramps[2].gap.low
           \/ ramps[2].gap.high < ramps[1].gap.low

C9_Witness ==
    /\ TwoRampScenario
    /\ ramps[1].edge = ramps[2].edge

\* C10: the composite build terminates: at most MAX_TRIES attempts fail, an
\* attempt is counted only when an ILEException was raised, a return happens
\* without a further attempt, and after MAX_TRIES failures the build raises
\* with the last failure as its cause.
C10_Terminates ==
    /\ [](tries <= MAX_TRIES)
    /\ [](Failed => tries = MAX_TRIES /\ last_exception # NoException)
    /\ [](Returned => tries < MAX_TRIES)
    /\ [][tries' # tries =>
            /\ tries' = tries + 1
            /\ pc \in {"top_ramps", "under_ramps"}
            /\ last_exception' \in {"no_valid_edge", "no_valid_location"}]_vars
    /\ [][(Returned \/ Failed) => UNCHANGED vars]_vars
    /\ <>(Returned \/ Failed)

C10_Witness ==
    /\ Returned
    /\ tries > 0

-----------------------------------------------------------------------------
(* ActionService (action_service.py): the goal's action_list.  An entry of
   the list is a record: list tells a list of commands (what every entry
   should be) from a bare command string, cmds holds the commands.  A
   command is a name with its ",key=value" arguments in order. *)

MaxStep == 3

Command(name) == [name |-> name, args |-> <<>>]
ListEntry(cmds) == [list |-> TRUE, cmds |-> cmds]
StringEntry(cmd) == [list |-> FALSE, cmds |-> <<cmd>>]

\* [] and ['Pass']
EmptyEntry == ListEntry(<<>>)
PassEntry == ListEntry(<<Command("Pass")>>)

swivel_actions == <<Command("LookDown"), Command("LookUp"), Command("RotateLeft"), Command("RotateRight")>>

\* [e] * n: the empty list when n <= 0.
Repeat(e, n) == IF n <= 0 THEN <<>> ELSE [i \in 1 .. n |-> e]

Result(al, exc) == [al |-> al, exc |-> exc]

\* "f.begin = 1 if f.begin is None else f.begin"
BeginOf(f) == IF f.begin = None THEN 1 ELSE f.begin[1]

\* "f.end = goal['last_step'] + 1" when f.end is None, last_step being set.
EndOf(f, last_step) == IF f.end = None THEN last_step[1] + 1 ELSE f.end[1]

\* A freeze that counts its end step in.
NumLimitedInclusive(begin, end) == end - begin + 1

num_free(begin, limit) == begin - limit
num_limited(begin, end) == end - begin

\* The loop of add_freezes from one freeze on; al is extended in place, so
\* what earlier freezes appended stays when a later one raises.
RECURSIVE FreezeLoop(_, _, _, _)
FreezeLoop(al, limit, freezes, last_step) ==
    IF freezes = <<>> THEN Result(al, "none")
    ELSE LET f == Head(freezes)
             begin == BeginOf(f)
             end == EndOf(f, last_step)
         IN  IF f.end = None /\ last_step = None
                 THEN Result(al, "ILEConfigurationException")
             ELSE IF limit > begin THEN Result(al, "ILEException")
             ELSE IF begin >= end THEN Result(al, "ILEException")
             ELSE FreezeLoop(al \o Repeat(EmptyEntry, num_free(begin, limit))
                                \o Repeat(PassEntry, num_limited(begin, end)),
                             end, Tail(freezes), last_step)

add_freezes(g, freezes) == FreezeLoop(g.action_list, 1, freezes, g.last_step)

\* "if t.position_x": None and 0 are both false.
Truthy(value) == value # None /\ value[1] # 0

Arg(key, value) ==
    IF Truthy(value) THEN <<[key |-> key, value |-> value[1]]>> ELSE <<>>

TeleportCommand(t) ==
    [name |-> "EndHabituation",
     args |-> Arg("xPosition", t.position_x) \o Arg("zPosition", t.position_z)
                \o Arg("yRotation", t.rotation_y)]

RECURSIVE TeleportLoop(_, _, _)
TeleportLoop(al, teleports, passive) ==
    IF teleports = <<>> THEN Result(al, "none")
    ELSE LET t == Head(teleports)
             step == t.step
             length == Len(al)
             padded == IF step > length
                       THEN al \o Repeat(EmptyEntry, step - length) ELSE al
         IN  IF padded[step] # EmptyEntry /\ ~passive
                 THEN Result(padded, "ILEException")
             ELSE TeleportLoop(
                      [padded EXCEPT ![step] = ListEntry(<<TeleportCommand(t)>>)],
                      Tail(teleports), passive)

add_teleports(g, teleports, passive) ==
    TeleportLoop(g.action_list, teleports, passive)

\* The "while(step < s.end)" loop of add_swivels.  "al += swivel_actions"
\* extends al by the four command strings.
RECURSIVE SwivelSteps(_, _, _)
SwivelSteps(al, step, end) ==
    IF ~(step < end) THEN Result(al, "none")
    ELSE IF Len(al) >= step
         THEN IF al[step] # EmptyEntry THEN Result(al, "ILEException")
              ELSE SwivelSteps([al EXCEPT ![step] = ListEntry(swivel_actions)],
                               step + 1, end)
         ELSE SwivelSteps(al \o [i \in 1 .. 4 |-> StringEntry(swivel_actions[i])],
                          step + 1, end)

\* The loop of add_swivels; al_length is the length of the list before the
\* first swivel.
RECURSIVE SwivelLoop(_, _, _, _, _)
SwivelLoop(al, al_length, limit, swivels, last_step) ==
    IF swivels = <<>> THEN Result(al, "none")
    ELSE LET s == Head(swivels)
             begin == BeginOf(s)
             end == EndOf(s, last_step)
             no_actions == al_length = 0
         IN  IF s.end = None /\ last_step = None
                 THEN Result(al, "ILEConfigurationException")
             ELSE IF limit > begin THEN Result(al, "ILEException")
             ELSE IF begin >= end THEN Result(al, "ILEException")
             ELSE IF no_actions \/ begin > al_length
                 THEN SwivelLoop(
                          al \o Repeat(EmptyEntry,
                                       IF no_actions THEN begin - limit
                                       ELSE begin - al_length - 1)
                             \o Repeat(ListEntry(swivel_actions), end - begin),
                          al_length, end, Tail(swivels), last_step)
             ELSE LET r == SwivelSteps(al, begin, end)
                  IN  IF r.exc # "none" THEN r
                      ELSE SwivelLoop(r.al, al_length, end, Tail(swivels),
                                      last_step)

add_swivels(g, swivels) ==
    SwivelLoop(g.action_list, Len(g.action_list), 1, swivels, g.last_step)

\* Resolved StepBeginEnd and TeleportConfig values and the lists of them.
OptionalSteps(lo, hi) == {None} \cup { Some(i) : i \in lo .. hi }

StepBeginEnds ==
    [begin : OptionalSteps(1, MaxStep), end : OptionalSteps(2, MaxStep + 1)]

\* position_x and position_z are both required when rotation_y is not set.
TeleportConfigs ==
    { t \in [step : 1 .. MaxStep,
             position_x : {None, Some(0), Some(3)},
             position_z : {None, Some(2)},
             rotation_y : {None, Some(90)}] :
        \/ t.position_x # None /\ t.position_z # None
        \/ t.rotation_y # None }

ListsOf(S) == {<<>>} \cup { <<a>> : a \in S } \cup { <<a, b>> : a, b \in S }

\* update_ile_scene: "if last_step: scene['goal']['last_step'] = last_step"
SetLastStep ==
    /\ call = NoCall
    /\ goal.last_step = None
    /\ goal' = [goal EXCEPT !.last_step = Some(MaxStep)]
    /\ UNCHANGED <<buildVars, sceneVars, call, room, settings, movement, mech>>

Called == IF call = NoCall THEN {} ELSE call.called

CanCall(fn) ==
    /\ call = NoCall \/ call.fn = "none"
    /\ fn \notin Called

Record(fn, args, passive, r) ==
    /\ goal' = [goal EXCEPT !.action_list = r.al]
    /\ call' = [fn |-> fn, args |-> args, passive |-> passive,
                before |-> goal.action_list, exc |-> r.exc,
                called |-> Called \cup {fn}]
    /\ UNCHANGED <<buildVars, sceneVars, room, settings, movement, mech>>

AddFreezes ==
    /\ CanCall("add_freezes")
    /\ \E freezes \in ListsOf(StepBeginEnds) :
        Record("add_freezes", freezes, FALSE, add_freezes(goal, freezes))

AddTeleports ==
    /\ CanCall("add_teleports")
    /\ \E teleports \in ListsOf(TeleportConfigs), passive \in BOOLEAN :
        Record("add_teleports", teleports, passive,
               add_teleports(goal, teleports, passive))

AddSwivels ==
    /\ CanCall("add_swivels")
    /\ \E swivels \in ListsOf(StepBeginEnds) :
        Record("add_swivels", swivels, FALSE, add_swivels(goal, swivels))

\* The call returned normally: the next restriction can be added.
Return ==
    /\ call # NoCall
    /\ call.fn # "none"
    /\ call.exc = "none"
    /\ call' = [fn |-> "none", called |-> call.called]
    /\ UNCHANGED <<buildVars, sceneVars, goal, room, settings, movement, mech>>

ActionNext ==
    \/ SetLastStep
    \/ AddFreezes
    \/ AddTeleports
    \/ AddSwivels
    \/ Return

ActionSpec == Init /\ [][ActionNext]_vars

Ran(fn) == call # NoCall /\ call.fn = fn /\ call.exc = "none"

InSome(s, ranges) ==
    \E i \in 1 .. Len(ranges) :
        BeginOf(ranges[i]) <= s /\ s < EndOf(ranges[i], goal.last_step)

\* C15: add_freezes on an empty action list, returning normally for at least
\* one freeze, leaves a list of length (last end - 1) whose entry for step s
\* is ['Pass'] exactly when s is in [begin, end) of some freeze and [] when
\* not, a missing begin being 1 and a missing end last_step + 1.
C15_FreezesAreBeginInclusiveEndExclusive ==
    (Ran("add_freezes") /\ call.before = <<>> /\ call.args # <<>>) =>
        LET al == goal.action_list
            last == call.args[Len(call.args)]
        IN  /\ Len(al) = EndOf(last, goal.last_step) - 1
            /\ \A s \in 1 .. Len(al) :
                 al[s] = IF InSome(s, call.args) THEN PassEntry ELSE EmptyEntry

C15_Witness ==
    /\ Ran("add_freezes") /\ call.before = <<>>
    /\ Len(call.args) = 2
    /\ call.args[1].begin = None
    /\ call.args[2].end = None
    /\ BeginOf(call.args[2]) > EndOf(call.args[1], goal.last_step)

\* C16: after add_swivels returns normally, every step of every [begin, end)
\* holds the list of the four view actions and every other entry that
\* existed before is unchanged.
C16_SwivelsSetExactlyTheirSteps ==
    Ran("add_swivels") =>
        LET al == goal.action_list
        IN  /\ \A s \in 1 .. MaxStep + 1 :
                 InSome(s, call.args) =>
                     s <= Len(al) /\ al[s] = ListEntry(swivel_actions)
            /\ \A s \in 1 .. Len(call.before) :
                 ~InSome(s, call.args) => al[s] = call.before[s]

Configured(cmd, key, value) ==
    IF value = None THEN \A i \in 1 .. Len(cmd.args) : cmd.args[i].key # key
    ELSE \E i \in 1 .. Len(cmd.args) :
            cmd.args[i].key = key /\ cmd.args[i].value = value[1]

\* C17: after add_teleports returns normally, the list reaches every
\* teleport's step and the entry of the step is a single EndHabituation
\* command holding xPosition, zPosition and yRotation for exactly the fields
\* that are not None (the last teleport of a step is the one that stays).
C17_CommandHoldsConfiguredFields ==
    Ran("add_teleports") =>
        \A i \in 1 .. Len(call.args) :
            LET t == call.args[i]
                al == goal.action_list
            IN  (\A j \in i + 1 .. Len(call.args) : call.args[j].step # t.step)
                => /\ t.step <= Len(al)
                   /\ al[t.step].list /\ Len(al[t.step].cmds) = 1
                   /\ LET cmd == al[t.step].cmds[1]
                      IN  /\ cmd.name = "EndHabituation"
                          /\ Configured(cmd, "xPosition", t.position_x)
                          /\ Configured(cmd, "zPosition", t.position_z)
                          /\ Configured(cmd, "yRotation", t.rotation_y)

-----------------------------------------------------------------------------
(* GlobalSettingsComponent.get_room_dimensions (global_settings_component.py):
   a dimension of the template is None, an int, a list of ints or a
   MinMaxInt; choices is the set of ints choose_random can resolve it to. *)

ROOM_MAX_XZ == 100
ROOM_RANDOM_XZ == [min |-> 5, max |-> 30]
ROOM_RANDOM_Y == [min |-> 3, max |-> 8]

Unset == [type |-> "None", choices |-> {}]
Fixed(v) == [type |-> "int", choices |-> {v}]
OneOf(S) == [type |-> "list", choices |-> S]
MinMaxInt(r) == [type |-> "MinMaxInt", choices |-> r.min .. r.max]

\* Configured room_dimensions and room_shape ("none" when not configured).
RoomDimensionConfigs ==
    [x : {Unset, Fixed(80), OneOf({6, 80})},
     y : {Unset, Fixed(3)},
     z : {Unset, Fixed(6), Fixed(80), OneOf({6, 80})}]

RoomShapes == {"none", "rectangle", "square"}

\* "if template.x is None: template.x = ROOM_RANDOM_XZ", and so for y and z.
FillTemplate(rd) ==
    [x |-> IF rd.x = Unset THEN MinMaxInt(ROOM_RANDOM_XZ) ELSE rd.x,
     y |-> IF rd.y = Unset THEN MinMaxInt(ROOM_RANDOM_Y) ELSE rd.y,
     z |-> IF rd.z = Unset THEN MinMaxInt(ROOM_RANDOM_XZ) ELSE rd.z]

has_none(rd) == rd.x = Unset \/ rd.y = Unset \/ rd.z = Unset

has_random(t) == \E d \in {t.x, t.y, t.z} : d.type \in {"list", "MinMaxInt"}

\* choose_random(template): one resolved VectorIntConfig.
choose_random(t) == [x : t.x.choices, y : t.y.choices, z : t.z.choices]

\* "z = dims.x if self.room_shape == 'square' else dims.z"
ShapedZ(dims, room_shape) == IF room_shape = "square" THEN dims.x ELSE dims.z

\* "math.sqrt(x**2 + z**2) > ROOM_MAX_XZ" on ints.
DiagonalTooLong(x, z) == x * x + z * z > ROOM_MAX_XZ * ROOM_MAX_XZ

\* A loop test that does not look at the room's shape.
GoodWhateverShape(x, z, room_shape) == ~DiagonalTooLong(x, z)

\* The value of good at the end of one iteration of "while not good".
good(x, z, room_shape) ==
    /\ ~DiagonalTooLong(x, z)
    /\ ~(room_shape = "rectangle" /\ x = z)

\* Entry of get_room_dimensions up to the loop: a template without None and
\* without random choice is returned as it is.
GetRoomDimensions ==
    /\ room = Idle
    /\ \E rd \in RoomDimensionConfigs, room_shape \in RoomShapes :
        LET t == FillTemplate(rd)
            random == has_none(rd) \/ has_random(t)
        IN  room' = [pc |-> IF random THEN "while" ELSE "returned",
                     room_dimensions |-> rd, room_shape |-> room_shape,
                     template |-> t, random |-> random,
                     result |-> IF random THEN <<>>
                                ELSE <<CHOOSE d \in choose_random(t) : TRUE>>]
    /\ UNCHANGED <<buildVars, sceneVars, goal, call, settings, movement, mech>>

\* One iteration of "while not good"; the loop goes on when good is False.
ChooseRoomDimensions ==
    /\ room # Idle
    /\ room.pc = "while"
    /\ \E dims \in choose_random(room.template) :
        LET x == dims.x
            z == ShapedZ(dims, room.room_shape)
        IN  room' = IF good(x, z, room.room_shape)
                    THEN [room EXCEPT !.pc = "returned",
                                      !.result = <<[x |-> x, y |-> dims.y, z |-> z]>>]
                    ELSE room
    /\ UNCHANGED <<buildVars, sceneVars, goal, call, settings, movement, mech>>

RoomNext ==
    \/ GetRoomDimensions
    \/ ChooseRoomDimensions

RoomSpec == Init /\ [][RoomNext]_vars

RoomReturned == room # Idle /\ room.pc = "returned"

\* C18: when a dimension is unset or randomised, the returned x and z are
\* equal for room_shape square, differ for room_shape rectangle, and the
\* floor diagonal is at most ROOM_MAX_XZ whatever the shape.
C18_ShapeAndDiagonal ==
    (RoomReturned /\ room.random) =>
        LET r == room.result[1]
        IN  /\ room.room_shape = "square" => r.x = r.z
            /\ room.room_shape = "rectangle" => r.x # r.z
            /\ r.x * r.x + r.z * r.z <= ROOM_MAX_XZ * ROOM_MAX_XZ

C18_Witness ==
    /\ RoomReturned /\ room.random
    /\ room.room_shape = "rectangle"
    /\ room.room_dimensions.x = OneOf({6, 80})
    /\ room.room_dimensions.z = OneOf({6, 80})

-----------------------------------------------------------------------------
(* GlobalSettingsComponent: the goal's delay (global_settings_component.py).
   settings holds _delayed_goal and the history of the calls made to the
   component: for each call whether the flag was set before it and how the
   goal attempt it made ended ("none" when it made no attempt). *)

MaxCalls == 6

\* Outcomes of GoalServices.attempt_to_add_goal: it returns, raises
\* ILEDelayException, or raises another exception.
Outcomes == {"ok", "delay", "error"}

\* An attempt after which the goal is never marked as delayed.
AttemptNeverDelays(delayed_goal, outcome) == FALSE

\* _attempt_goal: the value of _delayed_goal afterwards; an exception other
\* than ILEDelayException propagates and leaves the flag as it was.
_attempt_goal(delayed_goal, outcome) ==
    CASE outcome = "ok" -> FALSE
      [] outcome = "delay" -> TRUE
      [] OTHER -> delayed_goal

\* __init__: "self._delayed_goal = False"
DelayedGoal == IF settings = Idle THEN FALSE ELSE settings._delayed_goal

History == IF settings = Idle THEN <<>> ELSE settings.history

get_num_delayed_actions == IF DelayedGoal THEN 1 ELSE 0

ComponentCall(fn, outcome) ==
    /\ settings' = [pc |-> "updated",
                    _delayed_goal |-> IF outcome = "none" THEN DelayedGoal
                                      ELSE _attempt_goal(DelayedGoal, outcome),
                    history |-> Append(History,
                                       [fn |-> fn, delayed |-> DelayedGoal,
                                        attempt |-> outcome])]
    /\ UNCHANGED <<buildVars, sceneVars, goal, call, room, movement, mech>>

\* update_ile_scene ends with "self._attempt_goal(scene)".
UpdateIleScene ==
    /\ settings = Idle
    /\ \E outcome \in Outcomes : ComponentCall("update_ile_scene", outcome)

\* run_delayed_actions: "if self._delayed_goal: self._attempt_goal(scene)"
RunDelayedActions ==
    /\ settings # Idle
    /\ Len(History) < MaxCalls
    /\ IF DelayedGoal
       THEN \E outcome \in Outcomes : ComponentCall("run_delayed_actions", outcome)
       ELSE ComponentCall("run_delayed_actions", "none")

GoalNext ==
    \/ UpdateIleScene
    \/ RunDelayedActions

GoalSpec == Init /\ [][GoalNext]_vars

Attempts(outcomes) ==
    SelectSeq(History, LAMBDA h : h.attempt \in outcomes)

LastOf(s) == s[Len(s)]

\* run_delayed_actions attempts the goal only while it is delayed, and makes
\* no attempt after an attempt that succeeded.
OnlyWhileDelayed ==
    \A i \in 1 .. Len(History) :
        /\ (History[i].fn = "run_delayed_actions" /\ History[i].attempt # "none")
              => History[i].delayed
        /\ History[i].attempt = "ok" =>
              \A k \in i + 1 .. Len(History) : History[k].attempt = "none"

\* C19 as stated: get_num_delayed_actions is 1 exactly when the most recent
\* goal attempt raised a Delay (0 before any attempt); run_delayed_actions
\* attempts the goal only while it is delayed and never after a success.
C19_DelayedExactlyAfterDelay ==
    /\ get_num_delayed_actions =
         IF Attempts(Outcomes) # <<>> /\ LastOf(Attempts(Outcomes)).attempt = "delay"
         THEN 1 ELSE 0
    /\ OnlyWhileDelayed

\* C19 amended: get_num_delayed_actions is 1 exactly when the most recent
\* goal attempt that returned or raised a Delay raised a Delay (an attempt
\* that raises another exception leaves it as it was; 0 before any attempt);
\* run_delayed_actions attempts the goal only while it is delayed and never
\* after a success.
C19_DelayedExactlyAfterDelayOrError ==
    /\ get_num_delayed_actions =
         IF /\ Attempts({"ok", "delay"}) # <<>>
            /\ LastOf(Attempts({"ok", "delay"})).attempt = "delay"
         THEN 1 ELSE 0
    /\ OnlyWhileDelayed

C19_Witness ==
    /\ Len(History) = MaxCalls
    /\ History[1].attempt = "delay"
    /\ History[2].attempt = "error"
    /\ History[3].attempt = "delay"
    /\ History[4].attempt = "ok"
    /\ History[5].attempt = "none"

-----------------------------------------------------------------------------
(* StructuralTurntableCreationService._handle_dependent_defaults: the end
   step of the turntable's movement.  movement holds the reconciled
   StructuralObjectMovementConfig and what the function makes of it. *)

\* Reconciled movements: step_begin and end_after_rotation are ints (the
\* default template sets them), step_end may be None, rotation_y is what the
\* user configured or a default.
MovementConfigs ==
    [step_begin : 0 .. 3,
     step_end : {None, Some(0), Some(2), Some(9)},
     rotation_y : {Some(0), Some(5), Some(0 - 5), Some(7)},
     end_after_rotation : {Some(0), Some(90), Some(100), Some(360), Some(720)}]

\* "end_after = (end_after % 360) or 360"
EndAfter(end_after) == IF end_after % 360 = 0 THEN 360 ELSE end_after % 360

\* "int(end_after / abs(rotation_y))" for a positive end_after.
RotationSteps(end_after, rotation_y) == end_after \div Abs(rotation_y)

\* The part of _handle_dependent_defaults that sets step_end: the reconciled
\* step_end, or the exception the function ends with.
ResolveStepEnd(m) ==
    LET step_end == IF ~Truthy(m.rotation_y) THEN Some(m.step_begin)
                    ELSE m.step_end
    IN  IF Truthy(m.end_after_rotation) /\ ~Truthy(step_end)
        THEN IF m.rotation_y[1] = 0
             THEN [exc |-> "ZeroDivisionError", step_end |-> step_end]
             ELSE [exc |-> "none",
                   step_end |-> Some(m.step_begin - 1
                       + RotationSteps(EndAfter(m.end_after_rotation[1]),
                                       m.rotation_y[1]))]
        ELSE [exc |-> "none", step_end |-> step_end]

\* The template is reconciled with the defaults.
ReconcileTurntable ==
    /\ movement = Idle
    /\ \E m \in MovementConfigs :
        movement' = [pc |-> "reconciled", config |-> m,
                     exc |-> "none", step_end |-> m.step_end]
    /\ UNCHANGED <<buildVars, sceneVars, goal, call, room, settings, mech>>

HandleTurntableDefaults ==
    /\ movement # Idle
    /\ movement.pc = "reconciled"
    /\ LET r == ResolveStepEnd(movement.config)
       IN  movement' = [movement EXCEPT !.pc = "done", !.exc = r.exc,
                                        !.step_end = r.step_end]
    /\ UNCHANGED <<buildVars, sceneVars, goal, call, room, settings, mech>>

TurntableNext ==
    \/ ReconcileTurntable
    \/ HandleTurntableDefaults

TurntableSpec == Init /\ [][TurntableNext]_vars

\* C20: a configured step_end stays as it is; without it, a non-zero
\* rotation_y gives step_end = step_begin - 1 + floor(E / |rotation_y|) with
\* E = end_after_rotation mod 360, or 360 when that is 0; without rotation_y
\* step_end is step_begin.
C20_StepEndResolution ==
    (movement # Idle /\ movement.pc = "done") =>
        LET m == movement.config
            E == IF m.end_after_rotation[1] % 360 = 0 THEN 360
                 ELSE m.end_after_rotation[1] % 360
        IN  /\ movement.exc = "none"
            /\ movement.step_end =
                 IF m.step_end # None THEN m.step_end
                 ELSE IF m.rotation_y[1] # 0
                 THEN Some(m.step_begin - 1 + E \div Abs(m.rotation_y[1]))
                 ELSE Some(m.step_begin)

-----------------------------------------------------------------------------
(* StructuralPlacersCreationService._handle_dependent_defaults: the labels a
   placer asks the object repository for.  For each label the repository has
   no object ("missing"), an object without final position ("free"), or an
   object that was given its final position by a keyword location
   ("keyword") or by a mechanism ("mechanism"). *)

TARGET_LABEL == "target"

PlacerLabels == {"a", "b", TARGET_LABEL}

ObjectRepositories == [PlacerLabels -> {"missing", "free", "keyword", "mechanism"}]

has_label(repo, label) == repo[label] # "missing"

\* Source templates of a placer; collides tells that a start or end position
\* is configured for the held object and _check_for_collisions finds no
\* valid location for it.
PlacerConfigs ==
    [placed_object_labels : {None, Some("a"), Some(TARGET_LABEL)},
     existing_object_required : BOOLEAN,
     empty_placer : BOOLEAN,
     placed_object_above : {None, Some("b")},
     end_height_relative_object_label : {None, Some("b")},
     move_object : BOOLEAN,
     collides : BOOLEAN]

NoIdl == [exc |-> "none", idl |-> None]

\* A lookup that never asks for a delay.
HeldObjectNeverRequired(repo, labels, place_or_pickup, existing_object_required) == NoIdl

\* A lookup that returns the labelled object whatever positioned it.
HeldObjectWhateverPosition(repo, labels, place_or_pickup, existing_object_required) == IF repo[labels[1]] # "missing" THEN [exc |-> "none", idl |-> Some(labels[1])] ELSE NoIdl

\* _get_existing_held_object_idl for one label: the object found, None, or
\* the ILEDelayException raised.
_get_existing_held_object_idl(repo, labels, place_or_pickup, existing_object_required) ==
    LET label == labels[1]
    IN  IF \/ repo[label] = "free"
           \/ repo[label] = "keyword" /\ place_or_pickup
        THEN [exc |-> "none", idl |-> Some(label)]
        ELSE IF existing_object_required \/ label = TARGET_LABEL
        THEN [exc |-> "ILEDelayException", idl |-> None]
        ELSE NoIdl

PlacerOutcome(exc, held) == [exc |-> exc, held |-> held]

\* _handle_dependent_defaults of the placer service: the exception it ends
\* with and the object the placer holds ("existing", "new" or "none").
PlacerDefaults(repo, c) ==
    IF c.empty_placer /\ c.placed_object_labels # None
    THEN PlacerOutcome("ILEConfigurationException", "none")
    ELSE
    LET found == IF c.placed_object_labels # None
                 THEN _get_existing_held_object_idl(
                          repo, c.placed_object_labels, ~c.move_object,
                          c.existing_object_required)
                 ELSE NoIdl
        held == IF found.idl # None THEN "existing"
                ELSE IF ~c.empty_placer THEN "new" ELSE "none"
    IN  IF found.exc # "none" THEN PlacerOutcome(found.exc, "none")
        ELSE IF /\ c.placed_object_above # None
                /\ ~has_label(repo, c.placed_object_above[1])
        THEN PlacerOutcome("ILEDelayException", held)
        ELSE IF c.collides /\ ~c.empty_placer
        THEN PlacerOutcome("ILEException", held)
        ELSE IF /\ c.end_height_relative_object_label # None
                /\ ~has_label(repo, c.end_height_relative_object_label[1])
        THEN PlacerOutcome("ILEDelayException", held)
        ELSE PlacerOutcome("none", held)

\* A placer is requested in a scene whose repository holds some objects.
RequestPlacer ==
    /\ mech = Idle
    /\ \E repo \in ObjectRepositories, c \in PlacerConfigs :
        mech' = [kind |-> "placer", pc |-> "reconciled", repo |-> repo,
                 config |-> c, outcome |-> PlacerOutcome("none", "none")]
    /\ UNCHANGED <<buildVars, sceneVars, goal, call, room, settings, movement>>

HandlePlacerDefaults ==
    /\ mech # Idle
    /\ mech.kind = "placer" /\ mech.pc = "reconciled"
    /\ mech' = [mech EXCEPT !.pc = "done",
                            !.outcome = PlacerDefaults(mech.repo, mech.config)]
    /\ UNCHANGED <<buildVars, sceneVars, goal, call, room, settings, movement>>

PlacerNext ==
    \/ RequestPlacer
    \/ HandlePlacerDefaults

PlacerSpec == Init /\ [][PlacerNext]_vars

PlacerDone == mech # Idle /\ mech.kind = "placer" /\ mech.pc = "done"

Missing(label) == label # None /\ ~has_label(mech.repo, label[1])

-----------------------------------------------------------------------------
(* Thrower with a stop_position: _on_valid_instances commits the thrower and
   its new projectile and _do_post_add resolves the stop position.  The
   throw is straight along x (thrower on the left wall, rotation 0, stop_z
   equal to thrower_z); x coordinates and distances of the resolution are in
   hundredths of a world unit, the precision of round(required_distance, 2). *)

\* One hundredth of a world unit in doubled model units.
Hundredth2 == 2 * (Unit \div 100)

\* "thrower_x = round(self.thrower['shows'][0]['position']['x'], 4)"
ThrowerX(thrower) == thrower.pos2.x \div Hundredth2

\* The x a distance d in front of a thrower on the left wall.
StopAt(d) == ThrowerX([pos2 |-> ThrowerPos2("left", 0)]) + d

\* "distance_by_step[-1] - distance_by_step[0]" of the moves of BASE_MOVE_LIST
\* and TOSS_MOVE_LIST.
BaseMoveDistances == {500, 800}
TossMoveDistances == {600}

\* math.isclose(a, b, rel_tol=0.1, abs_tol=0.1)
IsClose(a, b) == 10 * Abs(a - b) <= Max(Max(Abs(a), Abs(b)), 100)

SetMin(S) == CHOOSE m \in S : \A n \in S : m <= n

\* Thrower templates with a stop_position; offscreen_x and behind_x are the
\* positions the off-screen and behind-occluder searches come up with, and
\* label_exists tells whether the repository has the label of "behind".
ThrowerStopConfigs ==
    [height : {0, 1, 2},
     stop_position : [x : {None, Some(StopAt(0 - 300)), Some(StopAt(300)), Some(StopAt(520))},
                      offscreen : BOOLEAN,
                      behind : {None, Some("b")}],
     offscreen_x : {StopAt(1200)},
     behind_x : {StopAt(650)},
     label_exists : BOOLEAN]

Raised(exc, names, unmatched, thrower_x) ==
    [exc |-> exc, names |-> names, unmatched |-> unmatched, thrower_x |-> thrower_x]

Force(unmatched, thrower_x) ==
    [exc |-> "none", names |-> <<>>, unmatched |-> unmatched, thrower_x |-> thrower_x]

\* A retry for "behind" in every scene.
RetryWhenBehind(intuitive_physics, stop_position) == stop_position.behind # None

\* "if scene.intuitive_physics and reconciled.stop_position.behind" of the
\* branch without valid moves.
RetryBehind(intuitive_physics, stop_position) ==
    intuitive_physics /\ stop_position.behind # None

\* __use_stop_position_config with the thrower at thrower_x; unmatched lists
\* the required distances for which the catalog had no valid move.
RECURSIVE __use_stop_position_config(_, _, _, _)
__use_stop_position_config(c, intuitive_physics, thrower_x, unmatched) ==
    IF c.height \notin {0, 1}
    THEN Raised("ILEConfigurationException", <<"height", c.height>>, unmatched, thrower_x)
    ELSE
    LET offscreen == intuitive_physics /\ c.stop_position.offscreen
        behind == intuitive_physics /\ c.stop_position.behind # None
        is_left_to_right == thrower_x < 0
        stop_x == IF behind THEN Some(c.behind_x)
                  ELSE IF offscreen THEN Some(c.offscreen_x)
                  ELSE c.stop_position.x
    IN  IF behind /\ ~c.label_exists
        THEN Raised("ILEDelayException", <<"behind">>, unmatched, thrower_x)
        ELSE IF stop_x = None
        THEN Raised("ILEConfigurationException", <<"stop_x", "stop_z">>, unmatched, thrower_x)
        ELSE
        LET required_distance == Abs(thrower_x - stop_x[1])
            moves == IF c.height = 1 THEN TossMoveDistances ELSE BaseMoveDistances
            valid_moves ==
                { move_distance \in moves :
                    IF offscreen THEN move_distance + 10 >= required_distance
                    ELSE IsClose(move_distance, required_distance) }
            hypotenuse == SetMin({ d - required_distance : d \in moves })
            distance_x == hypotenuse * (IF is_left_to_right THEN -1 ELSE 1)
        IN  IF ~(thrower_x < stop_x[1])
            THEN Raised("ILEException", <<"required_angle">>, unmatched, thrower_x)
            ELSE IF valid_moves # {} THEN Force(unmatched, thrower_x)
            ELSE IF RetryBehind(intuitive_physics, c.stop_position)
            THEN __use_stop_position_config(
                     c, intuitive_physics, thrower_x + distance_x,
                     Append(unmatched, required_distance))
            ELSE Raised("ILEConfigurationException",
                        <<"required_distance", required_distance, moves>>,
                        Append(unmatched, required_distance), thrower_x)

\* scene.objects without the instances of the given ids.
WithoutIds(scene_objects, ids) ==
    LET kept == SelectSeq([i \in 1 .. Len(scene_objects) |-> i],
                          LAMBDA i : i \notin ids)
    IN  [k \in 1 .. Len(kept) |-> scene_objects[kept[k]]]

\* _on_valid_instances of a thrower with stop_position: the thrower and a
\* new projectile are appended to scene.objects, then _do_post_add resolves
\* the stop position; when that raises, the instances with the ids of the
\* target and of the thrower are filtered out of scene.objects.
ThrowWithStopPosition ==
    /\ mech = Idle
    /\ \E target \in {NoTarget, NewTarget} \cup ExistingHeldObjects,
          c \in ThrowerStopConfigs, intuitive_physics \in BOOLEAN :
        LET thrower == Instance("thrower", ThrowerPos2("left", 0), 0,
                                ThrowerSize, ThrowerSize)
            projectile == [Instance("projectile", thrower.pos2, 0,
                                    ProjectileSize, ProjectileSize)
                              EXCEPT !.positionedBy = "mechanism"]
            new_obj == IF target = NewTarget THEN <<thrower, projectile>>
                       ELSE <<thrower>>
            thrower_id == Len(objects) + 1
            target_id == IF target = NewTarget THEN thrower_id + 1 ELSE target
            added == objects \o new_obj
            r == IF target = NoTarget THEN Force(<<>>, ThrowerX(thrower))
                 ELSE __use_stop_position_config(c, intuitive_physics,
                                                 ThrowerX(thrower), <<>>)
            moved == [move_to_location(thrower, [thrower.pos2 EXCEPT
                                           !.x = r.thrower_x * Hundredth2])
                         EXCEPT !.heldObjectId = target_id]
        IN  /\ Len(added) <= MaxObjects
            /\ ThrowerIsValid(objects, new_obj)
            /\ objects' =
                 IF target = NoTarget THEN added
                 ELSE IF r.exc # "none"
                 THEN WithoutIds(added, {target_id, thrower_id})
                 ELSE [added EXCEPT ![thrower_id] = moved,
                                    ![target_id] = ThrowInto(@, moved)]
            /\ mech' = [kind |-> "thrower", pc |-> "done", before |-> objects,
                        config |-> c, intuitive_physics |-> intuitive_physics,
                        target |-> target, outcome |-> r]
    /\ UNCHANGED <<buildVars, goal, call, room, settings, movement>>

ThrowerNext ==
    \/ AddPlatform
    \/ ThrowWithStopPosition

ThrowerSpec == Init /\ [][ThrowerNext]_vars

Thrown == mech # Idle /\ mech.kind = "thrower" /\ mech.target # NoTarget

Catalog == IF mech.config.height = 1 THEN TossMoveDistances ELSE BaseMoveDistances

NamesDistances ==
    /\ mech.outcome.exc = "ILEConfigurationException"
    /\ mech.outcome.names =
         <<"required_distance", mech.outcome.unmatched[Len(mech.outcome.unmatched)], Catalog>>

C13_RaisedAttemptIsDiscarded ==
    (Thrown /\ mech.outcome.exc # "none") =>
        /\ \A j \in 1 .. Len(objects) :
               objects[j].kind \notin {"thrower", "projectile"}
        /\ \A i \in 1 .. Len(mech.before) :
               \E j \in 1 .. Len(objects) : objects[j] = mech.before[i]

-----------------------------------------------------------------------------
(* StructuralPlacersCreationService._handle_dependent_defaults for an empty
   placer without labels: the activation step it resolves from
   activate_after and activate_on_start_or_after. *)

\* return_list: a string is a list of one, None is the empty list.
return_list(value) == IF value = None THEN <<>> ELSE value[1]

\* "[label for label in return_list(...) if label]"
NonEmptyLabels(value) == SelectSeq(return_list(value), LAMBDA label : label # "")

\* Source values of activate_after and activate_on_start_or_after: unset, one
\* label, or a list of labels.
LabelSources == {None, Some(<<"a">>), Some(<<"a", "b">>), Some(<<"", "a">>)}

\* The values reconcile can choose for a source value: one of its labels.
ReconciledLabels(value) ==
    IF value = None THEN {""}
    ELSE { value[1][i] : i \in 1 .. Len(value[1]) }

\* Steps that get_step_after_movement(labels) and
\* get_step_after_movement_or_start(labels) return for the scene's objects.
MovementSteps(labels) ==
    IF labels = <<>> THEN {0, 1}
    ELSE IF Len(labels) = 1 THEN {0, 1, 8} ELSE {1, 8, 12}

\* Every step overrides the activation step.
StepAlwaysApplies(step) == TRUE

\* "if step >= 1"
StepApplies(step) == step >= 1

\* Lines 2239-2254: c holds the reconciled template (activation_step,
\* activate_after, activate_on_start_or_after) and the steps the two
\* functions return.
ResolveActivationStep(c) ==
    LET after == IF c.activate_after # "" /\ StepApplies(c.step_after)
                 THEN c.step_after ELSE c.activation_step
    IN  IF c.activate_on_start_or_after # "" /\ StepApplies(c.step_on_start_or_after)
        THEN c.step_on_start_or_after ELSE after

RequestActivation ==
    /\ mech = Idle
    /\ \E activation_step \in {0, 5},
          source_after \in LabelSources, source_start \in LabelSources :
        \E activate_after \in ReconciledLabels(source_after),
           activate_on_start_or_after \in ReconciledLabels(source_start),
           step_after \in MovementSteps(NonEmptyLabels(source_after)),
           step_on_start_or_after \in MovementSteps(NonEmptyLabels(source_start)) :
            mech' = [kind |-> "activation", pc |-> "reconciled",
                     source |-> [activate_after |-> source_after,
                                 activate_on_start_or_after |-> source_start],
                     config |-> [activation_step |-> activation_step,
                                 activate_after |-> activate_after,
                                 activate_on_start_or_after |-> activate_on_start_or_after,
                                 step_after |-> step_after,
                                 step_on_start_or_after |-> step_on_start_or_after],
                     activation_step |-> activation_step]
    /\ UNCHANGED <<buildVars, sceneVars, goal, call, room, settings, movement>>

HandleActivationDefaults ==
    /\ mech # Idle
    /\ mech.kind = "activation" /\ mech.pc = "reconciled"
    /\ mech' = [mech EXCEPT !.pc = "done",
                            !.activation_step = ResolveActivationStep(mech.config)]
    /\ UNCHANGED <<buildVars, sceneVars, goal, call, room, settings, movement>>

ActivationNext ==
    \/ RequestActivation
    \/ HandleActivationDefaults

ActivationSpec == Init /\ [][ActivationNext]_vars

ActivationDone == mech # Idle /\ mech.kind = "activation" /\ mech.pc = "done"

\* C21: with activate_after set, the resolved activation_step is the step
\* get_step_after_movement returns for the labels of the source template,
\* and the configured activation_step only when that step is below 1;
\* activate_on_start_or_after, when also set and its step is at least 1,
\* is applied last.
C21_ActivateAfterOverrides ==
    LET c == mech.config
        after == IF c.step_after >= 1 THEN c.step_after ELSE c.activation_step
    IN  (ActivationDone /\ c.activate_after # "") =>
            mech.activation_step =
                IF c.activate_on_start_or_after # "" /\ c.step_on_start_or_after >= 1
                THEN c.step_on_start_or_after
                ELSE after

C21_Witness ==
    /\ ActivationDone
    /\ mech.config.activate_after = "a"
    /\ mech.config.activate_on_start_or_after = ""
    /\ mech.config.activation_step = 5
    /\ mech.config.step_after = 8
    /\ mech.activation_step = 8

-----------------------------------------------------------------------------
(* StructuralPlacersCreationService._create_feature_from_specific_values_helper
   for a placer that moves an existing object (move_object): the dependent
   objects it repositions.  The scene holds the moved container, its separate
   lid and lid placer when it has them, and another object with the placer
   that holds it when it has them. *)

\* "idl.instance['moves'][-1]['stepEnd']" of the movement added by
\* mechanisms.move_object.
ObjectMoveEnd(activation_step) == activation_step + 10

\* Scenes of a move: activation_step of the moving placer, the x the object
\* is moved to, the movement window of the lid placer when the container has
\* a separate lid, and the other held object with its debug fields and the
\* first step of its placer.
MoveScenes ==
    [activation_step : {1, 5},
     new_x : {2},
     lid : {None} \cup { Some([stepBegin |-> b, stepEnd |-> b + 4]) : b \in {1, 12, 16, 20} },
     other : {None} \cup
         { Some(o) : o \in [positionedBy : {"mechanism", "none"},
                            positionedAboveId : {"moved", "lid"},
                            stepBegin : {1, 5, 6, 20}] }]

\* Positions of the scene's objects before the move.
StartPositions ==
    [id \in {"moved", "lid", "lid_placer", "held", "placer"} |->
        [x |-> 0, z |-> 1]]

\* "lid_placer_move_begin <= object_move_end and
\*  lid_placer_move_end >= object_move_begin"
LidWindowOverlaps(lid, object_move_begin, object_move_end) ==
    lid.stepBegin <= object_move_end /\ lid.stepEnd >= object_move_begin

\* objects_to_reposition: "extend" adds the lid and its placer as two
\* elements, "append" adds the held object and its placer as one element, a
\* list of the two.
ObjectsToReposition(s) ==
    LET object_move_end == ObjectMoveEnd(s.activation_step)
        lids == IF s.lid # None /\ s.lid[1].stepBegin > object_move_end
                THEN << <<"lid">>, <<"lid_placer">> >> ELSE <<>>
        others == IF /\ s.other # None
                     /\ s.other[1].positionedBy = "mechanism"
                     /\ s.other[1].positionedAboveId = "moved"
                     /\ s.other[1].stepBegin > s.activation_step
                  THEN << <<"held", "placer">> >> ELSE <<>>
    IN  [dicts |-> lids, lists |-> others]

\* "for object_to_reposition in objects_to_reposition:
\*      object_to_reposition['shows'][0]['position']['x'] = new_x ..."
\* An element that is a list cannot be indexed by 'shows': TypeError.
RepositionLoop(positions, to_reposition, new_x, new_z) ==
    LET ids == { to_reposition.dicts[k][1] : k \in 1 .. Len(to_reposition.dicts) }
    IN  [exc |-> IF to_reposition.lists # <<>> THEN "TypeError" ELSE "none",
         positions |-> [id \in DOMAIN positions |->
                          IF id \in ids THEN [x |-> new_x, z |-> new_z]
                          ELSE positions[id]]]

\* The move_object branch of the helper.
MoveObjectBranch(s, positions) ==
    LET object_move_begin == s.activation_step
        object_move_end == ObjectMoveEnd(s.activation_step)
        new_z == positions["moved"].z
    IN  IF s.lid # None /\ LidWindowOverlaps(s.lid[1], object_move_begin, object_move_end)
        THEN [exc |-> "ILEException", positions |-> positions]
        ELSE RepositionLoop(positions, ObjectsToReposition(s), s.new_x, new_z)

RequestMove ==
    /\ mech = Idle
    /\ \E s \in MoveScenes :
        mech' = [kind |-> "move", pc |-> "reconciled", scene |-> s,
                 positions |-> StartPositions, exc |-> "none"]
    /\ UNCHANGED <<buildVars, sceneVars, goal, call, room, settings, movement>>

CreatePlacerThatMoves ==
    /\ mech # Idle
    /\ mech.kind = "move" /\ mech.pc = "reconciled"
    /\ LET r == MoveObjectBranch(mech.scene, mech.positions)
       IN  mech' = [mech EXCEPT !.pc = "done", !.exc = r.exc,
                                !.positions = r.positions]
    /\ UNCHANGED <<buildVars, sceneVars, goal, call, room, settings, movement>>

MoveNext ==
    \/ RequestMove
    \/ CreatePlacerThatMoves

MoveSpec == Init /\ [][MoveNext]_vars

MoveDone == mech # Idle /\ mech.kind = "move" /\ mech.pc = "done"

AtEnd(id) == mech.positions[id] = [x |-> mech.scene.new_x, z |-> StartPositions["moved"].z]

\* C22: a lid placer whose movement window overlaps the object's move window
\* raises ILEException; otherwise the helper goes on without an exception,
\* with the lid and its placer at the end x/z of the moved object when the
\* lid placer starts after the move ends, and with every other placer-held
\* object positioned above the moved object, and its placer, at the end x/z
\* when that placer activates after this placer's activation step.
C22_DependentsAreRepositioned ==
    LET s == mech.scene
        move_end == ObjectMoveEnd(s.activation_step)
        overlap == /\ s.lid # None
                   /\ s.lid[1].stepBegin <= move_end
                   /\ s.lid[1].stepEnd >= s.activation_step
    IN  MoveDone =>
          IF overlap THEN mech.exc = "ILEException"
          ELSE /\ mech.exc = "none"
               /\ (s.lid # None /\ s.lid[1].stepBegin > move_end)
                     => (AtEnd("lid") /\ AtEnd("lid_placer"))
               /\ (/\ s.other # None
                   /\ s.other[1].positionedBy = "mechanism"
                   /\ s.other[1].positionedAboveId = "moved"
                   /\ s.other[1].stepBegin > s.activation_step)
                     => (AtEnd("held") /\ AtEnd("placer"))

-----------------------------------------------------------------------------
(* A sequence of droppers, placers and throwers that ask for an existing
   labelled object.  The repository holds one object per label; holders
   counts the committed mechanisms whose heldObjectId is that object. *)

\* place_or_pickup of the lookup each kind of mechanism makes: "not
\* reconciled.move_object" for a placer, the default False for the
\* projectile of a dropper or thrower.
MechanismKinds == {"placer", "move_placer", "dropper", "thrower"}

PlaceOrPickup(kind) == kind = "placer"

\* The scene's labelled objects before any mechanism.
OpenRepository ==
    /\ mech = Idle
    /\ \E repo \in ObjectRepositories :
        mech' = [kind |-> "held", repo |-> repo,
                 holders |-> [label \in PlacerLabels |->
                               IF repo[label] = "mechanism" THEN 1 ELSE 0],
                 last |-> [mechanism |-> "none", label |-> "none",
                           before |-> "none", returned |-> FALSE]]
    /\ UNCHANGED <<buildVars, sceneVars, goal, call, room, settings, movement>>

\* One mechanism from its lookup to its commit: the object found gets
\* positionedBy 'mechanism' and its final position flag, and the mechanism
\* holds it.  A placer whose creation raises resets both debug fields of the
\* object it had found (_cleanup_on_failure) and holds nothing.
CommitMechanism ==
    /\ mech # Idle
    /\ mech.kind = "held"
    /\ \E kind \in MechanismKinds, label \in PlacerLabels,
          existing_object_required \in BOOLEAN, raises \in BOOLEAN :
        LET found == _get_existing_held_object_idl(
                         mech.repo, Some(label), PlaceOrPickup(kind),
                         existing_object_required)
            returned == found.idl # None
            placer == kind \in {"placer", "move_placer"}
        IN  /\ existing_object_required => placer
            /\ raises => (placer /\ returned)
            /\ mech' = [mech EXCEPT
                 !.repo = IF ~returned THEN @
                          ELSE [@ EXCEPT ![label] =
                                  IF raises THEN "free" ELSE "mechanism"],
                 !.holders = IF returned /\ ~raises
                             THEN [@ EXCEPT ![label] = @ + 1] ELSE @,
                 !.last = [mechanism |-> kind, label |-> label,
                           before |-> mech.repo[label], returned |-> returned]]
    /\ UNCHANGED <<buildVars, sceneVars, goal, call, room, settings, movement>>

HeldNext ==
    \/ OpenRepository
    \/ CommitMechanism

HeldSpec == Init /\ [][HeldNext]_vars

Looked == mech # Idle /\ mech.kind = "held" /\ mech.last.mechanism # "none"

NoObjectHeldTwice ==
    (mech # Idle /\ mech.kind = "held") =>
        \A label \in PlacerLabels : mech.holders[label] <= 1

-----------------------------------------------------------------------------
(* A platform with adjacent_to_wall and the platform underneath it:
   StructuralPlatformCreationService.create_feature_from_specific_values up
   to structures.create_platform, then _add_platform_below. *)

\* Footprint of a platform at a rotation that is a multiple of 90 degrees.
Footprint(o) ==
    IF o.rotation_y % 180 = 0 THEN Rect(o.pos2, o.scale.x, o.scale.z)
    ELSE Rect(o.pos2, o.scale.z, o.scale.x)

\* The top platform is created from its reconciled template.
CreateAdjacentPlatform ==
    /\ mech = Idle
    /\ \E adj \in {None} \cup { Some(a) : a \in AdjacentOptions },
          scale \in {Cube2, OffGrid, Thin},
          position2 \in {Origin2, OffCenter2},
          rotation_y \in {0, 90, 180, 270} :
        LET pos2 == IF adj # None
                    THEN _calculate_adjacent_to_wall_pos(
                             RoomDim, adj[1], position2, scale)
                    ELSE position2
        IN  mech' = [kind |-> "adjacent", pc |-> "created",
                     template |-> [adjacent_to_wall |-> adj, lips |-> NoLips,
                                   long_with_two_ramps |-> FALSE],
                     top |-> [kind |-> "platform", pos2 |-> pos2,
                              scale |-> scale,
                              rotation_y |-> IF adj # None
                                             THEN AdjacentRotation(adj[1])
                                             ELSE rotation_y,
                              min_y |-> Unit],
                     below |-> NoObj]
    /\ UNCHANGED <<buildVars, sceneVars, goal, call, room, settings, movement>>

\* The platform underneath, rotated around the top platform's position.
AddPlatformBelow ==
    /\ mech # Idle
    /\ mech.kind = "adjacent" /\ mech.pc = "created"
    /\ \E b \in _add_platform_below(mech.top, mech.top.pos2, mech.template) :
        mech' = [mech EXCEPT !.pc = "stacked", !.below = b.platform]
    /\ UNCHANGED <<buildVars, sceneVars, goal, call, room, settings, movement>>

AdjacentNext ==
    \/ CreateAdjacentPlatform
    \/ AddPlatformBelow

AdjacentSpec == Init /\ [][AdjacentNext]_vars

AdjacentCreated ==
    mech # Idle /\ mech.kind = "adjacent" /\ mech.template.adjacent_to_wall # None

Inside(a, b) ==
    /\ b.xlo <= a.xlo /\ a.xhi <= b.xhi
    /\ b.zlo <= a.zlo /\ a.zhi <= b.zhi

\* C24: a platform created with adjacent_to_wall has, at the rotation the
\* option forces, a footprint that touches each named wall and lies inside
\* the room, whatever its scale.
C24_FootprintTouchesNamedWalls ==
    AdjacentCreated =>
        LET adj == mech.template.adjacent_to_wall[1]
            r == Footprint(mech.top)
        IN  /\ mech.top.rotation_y = AdjacentRotation(adj)
            /\ x_side(adj) = 1 => r.xhi = RoomDim.x
            /\ x_side(adj) = -1 => r.xlo = 0 - RoomDim.x
            /\ z_side(adj) = 1 => r.zhi = RoomDim.z
            /\ z_side(adj) = -1 => r.zlo = 0 - RoomDim.z
            /\ InRoom(r, RoomDim)

\* C26: the footprint of the top platform lies inside the footprint of the
\* platform made underneath it, in x and in z, with and without
\* adjacent_to_wall and at the rotation the two platforms share.
C26_UnderPlatformEncasesTop ==
    (mech # Idle /\ mech.kind = "adjacent" /\ mech.pc = "stacked") =>
        /\ mech.below.rotation_y = mech.top.rotation_y
        /\ Inside(Footprint(mech.top), Footprint(mech.below))

C26_Witness ==
    /\ mech # Idle /\ mech.kind = "adjacent" /\ mech.pc = "stacked"
    /\ mech.template.adjacent_to_wall = Some("back_right_corner")
    /\ mech.top.scale = Cube2
    /\ mech.below.scale.x # mech.below.scale.z
    /\ Inside(Footprint(mech.top), Footprint(mech.below))

-----------------------------------------------------------------------------
(* StructuralThrowerCreationService.create_feature_from_specific_values: the
   passive_physics_setup override of wall, height, rotation_y, rotation_z
   and position_wall.  position_wall is in tenths of a world unit. *)

MIN_TARGET_Z == 16
MAX_TARGET_Z == 56
MAX_TARGET_Z_STRAIGHT_ACROSS == 44

\* Reconciled thrower templates before the override.
PassiveThrowerConfigs ==
    [passive_physics_setup :
        {None, Some("random"), Some("roll_angled"), Some("roll_straight"),
         Some("toss_straight")},
     wall : {"left", "right", "front", "back"},
     height : {0, 1},
     rotation_y : {0, 45},
     rotation_z : {0, 15},
     position_wall : {0, 30}]

\* The same order of rotations on both walls.
RotationChoicesOnAnyWall(wall) == <<20, -20>>

\* "rotation_choices = [-20, 20]; if reconciled.wall == WallSide.LEFT:
\*  rotation_choices = [20, -20]"
RotationChoices(wall) == IF wall = "left" THEN <<20, -20>> ELSE <<-20, 20>>

\* The templates the override can leave for a reconciled template c.
PassivePhysicsOverride(c) ==
    IF c.passive_physics_setup = None THEN {c}
    ELSE
    LET choices == IF c.passive_physics_setup[1] = "random"
                   THEN {"roll_angled", "roll_straight", "toss_straight"}
                   ELSE {c.passive_physics_setup[1]}
        base(wall) == [c EXCEPT !.wall = wall, !.rotation_z = 0]
    IN  UNION { UNION {
          IF choice = "roll_straight" \/ choice = "toss_straight"
          THEN { [base(wall) EXCEPT
                    !.height = IF choice = "toss_straight" THEN 1 ELSE 0,
                    !.rotation_y = 0,
                    !.position_wall = position_wall] :
                 position_wall \in Sample(MIN_TARGET_Z, MAX_TARGET_Z_STRAIGHT_ACROSS) }
          ELSE { [base(wall) EXCEPT
                    !.height = 0,
                    !.rotation_y = RotationChoices(wall)[i],
                    !.position_wall = IF i = 1 THEN MAX_TARGET_Z
                                      ELSE MIN_TARGET_Z] :
                 i \in 1 .. 2 } :
          choice \in choices } : wall \in {"left", "right"} }

RequestPassiveThrower ==
    /\ mech = Idle
    /\ \E c \in PassiveThrowerConfigs :
        mech' = [kind |-> "passive", pc |-> "reconciled", source |-> c,
                 reconciled |-> c]
    /\ UNCHANGED <<buildVars, sceneVars, goal, call, room, settings, movement>>

CreatePassiveThrower ==
    /\ mech # Idle
    /\ mech.kind = "passive" /\ mech.pc = "reconciled"
    /\ \E r \in PassivePhysicsOverride(mech.reconciled) :
        mech' = [mech EXCEPT !.pc = "done", !.reconciled = r]
    /\ UNCHANGED <<buildVars, sceneVars, goal, call, room, settings, movement>>

PassiveNext ==
    \/ RequestPassiveThrower
    \/ CreatePassiveThrower

PassiveSpec == Init /\ [][PassiveNext]_vars

RollAngledDone ==
    /\ mech # Idle
    /\ mech.kind = "passive" /\ mech.pc = "done"
    /\ mech.source.passive_physics_setup = Some("roll_angled")

====
